---- MODULE Spec2Model ----
(***************************************************************************)
(* WebStrafe movement core: MovementMath, CollisionWorld and               *)
(* MovementController.                                                     *)
(*                                                                         *)
(* Numbers.  The source computes in IEEE doubles.  Here every real is a    *)
(* fixed-point integer counting multiples of 1/ONE (ONE = 1024; durations  *)
(* count multiples of 1/T_ONE s, so the 128 Hz step is exactly 1024),      *)
(* every product and quotient is rounded to the nearest grid value, and    *)
(* angles are fixed-point degrees.                                         *)
(* Thresholds of the source that are below the grid (1e-6, 1e-10, ...)     *)
(* become the smallest grid value that keeps their case apart.             *)
(***************************************************************************)
EXTENDS Integers, Sequences, FiniteSets, TLC

VARIABLES mathCall, world, trace, ctl, twin, hist

vars == <<mathCall, world, trace, ctl, twin, hist>>

(***************************************************************************)
(* Fixed-point arithmetic                                                  *)
(***************************************************************************)
ONE == 2 ^ 10

Abs(a) == IF a < 0 THEN -a ELSE a
Min(a, b) == IF a <= b THEN a ELSE b
Max(a, b) == IF a >= b THEN a ELSE b
Sign(a) == IF a < 0 THEN -1 ELSE 1

\* n / d rounded to the nearest integer, d > 0
RDiv(n, d) == (n + (d \div 2)) \div d

\* a * b and a / b on the grid
Mul(a, b) == RDiv(a * b, ONE)
\* durations count multiples of 1/T_ONE seconds (1/128 s is 1024)
T_ONE == 128 * ONE
MulT(a, t) == RDiv(a * t, T_ONE)
Div(a, b) == IF b = 0 THEN 0 ELSE Sign(b) * RDiv(a * ONE, Abs(b))

RECURSIVE SqrtSearch(_, _, _)
SqrtSearch(n, lo, hi) ==
  IF lo >= hi THEN lo
  ELSE LET mid == (lo + hi + 1) \div 2
       IN IF mid * mid <= n THEN SqrtSearch(n, mid, hi) ELSE SqrtSearch(n, lo, mid - 1)

\* r is the floor of the square root of n
RoundRoot(n, r) == IF n - r * r > r THEN r + 1 ELSE r

\* Math.sqrt of a non-negative integer, rounded to the nearest integer
ISqrt(n) == RoundRoot(n, SqrtSearch(n, 0, 46340))

Clamp(v, lo, hi) == Max(lo, Min(hi, v))

(***************************************************************************)
(* three.js Vector3                                                        *)
(***************************************************************************)
Vec(a, b, c) == [x |-> a, y |-> b, z |-> c]
ZERO == Vec(0, 0, 0)
UP == Vec(0, ONE, 0)
DOWN == Vec(0, -ONE, 0)

Dot(a, b) == RDiv(a.x * b.x + a.y * b.y + a.z * b.z, ONE)
LengthSq(a) == Dot(a, a)
Length(a) == ISqrt(a.x * a.x + a.y * a.y + a.z * a.z)
Hypot(a, b) == ISqrt(a * a + b * b)
AddScaledVector(a, n, s) == Vec(a.x + Mul(n.x, s), a.y + Mul(n.y, s), a.z + Mul(n.z, s))
AddScaledVectorT(a, n, t) == Vec(a.x + MulT(n.x, t), a.y + MulT(n.y, t), a.z + MulT(n.z, t))
MultiplyScalar(a, s) == Vec(Mul(a.x, s), Mul(a.y, s), Mul(a.z, s))
Add(a, b) == Vec(a.x + b.x, a.y + b.y, a.z + b.z)
Sub(a, b) == Vec(a.x - b.x, a.y - b.y, a.z - b.z)
Negate(a) == Vec(-a.x, -a.y, -a.z)
CrossVectors(a, b) ==
  Vec(Mul(a.y, b.z) - Mul(a.z, b.y), Mul(a.z, b.x) - Mul(a.x, b.z), Mul(a.x, b.y) - Mul(a.y, b.x))
\* Vector3.normalize divides by length() || 1
DivideScalar(a, len) == IF len = 0 THEN a ELSE Vec(Div(a.x, len), Div(a.y, len), Div(a.z, len))
Normalize(a) == DivideScalar(a, Length(a))
SetLength(a, l) == MultiplyScalar(Normalize(a), l)
\* a sum of normals scaled by depths is kept unrounded, in units of 1/ONE^2, so that a
\* shallow contact keeps its direction; it is scaled into range before it is normalised
AddUnrounded(a, n, s) == Vec(a.x + n.x * s, a.y + n.y * s, a.z + n.z * s)
ShrinkBy(a, k) == Vec(a.x \div k, a.y \div k, a.z \div k)
NormalizeUnrounded(a) == Normalize(ShrinkBy(a, Max(Abs(a.x), Max(Abs(a.y), Abs(a.z))) \div 8192 + 1))

(***************************************************************************)
(* MovementMath                                                            *)
(***************************************************************************)
EPSILON == 1

horizontalLength(vec) == Hypot(vec.x, vec.z)

accelerateUncapped(vel, wishDir, wishSpeed, accel, dt, surfaceFriction) ==
  LET currentSpeed == Dot(vel, wishDir)
      addSpeed == wishSpeed - currentSpeed
      accelSpeed == Mul(Mul(MulT(accel, dt), wishSpeed), surfaceFriction)
  IN IF addSpeed <= 0 THEN vel ELSE AddScaledVector(vel, wishDir, accelSpeed)

accelerate(vel, wishDir, wishSpeed, accel, dt, surfaceFriction) ==
  LET currentSpeed == Dot(vel, wishDir)
      addSpeed == wishSpeed - currentSpeed
      accelSpeed == Min(Mul(Mul(MulT(accel, dt), wishSpeed), surfaceFriction), addSpeed)
  IN IF addSpeed <= 0 THEN vel ELSE AddScaledVector(vel, wishDir, accelSpeed)

applyFrictionStopspeedOnly(vel, dt, friction, stopspeed) ==
  LET speed == Hypot(vel.x, vel.z)
      control == Max(speed, stopspeed)
      drop == MulT(Mul(control, friction), dt)
      newSpeed == Max(0, speed - drop)
      scale == Div(newSpeed, speed)
  IN IF speed <= EPSILON THEN [vel EXCEPT !.x = 0, !.z = 0]
     ELSE IF speed <= stopspeed THEN [vel EXCEPT !.x = Mul(vel.x, scale), !.z = Mul(vel.z, scale)]
     ELSE vel

applyFriction(vel, dt, friction, stopspeed) ==
  LET speed == Hypot(vel.x, vel.z)
      control == Max(speed, stopspeed)
      drop == MulT(Mul(control, friction), dt)
      newSpeed == Max(0, speed - drop)
      scale == Div(newSpeed, speed)
  IN IF speed <= EPSILON THEN [vel EXCEPT !.x = 0, !.z = 0]
     ELSE [vel EXCEPT !.x = Mul(vel.x, scale), !.z = Mul(vel.z, scale)]

clipVelocitySinglePass(vel, normal, overbounce) ==
  LET backoff == Mul(Dot(vel, normal), overbounce)
  IN AddScaledVector(vel, normal, -backoff)

clipVelocity(vel, normal, overbounce) ==
  LET backoff == Mul(Dot(vel, normal), overbounce)
      next == AddScaledVector(vel, normal, -backoff)
      adjust == Dot(next, normal)
  IN IF adjust < 0 THEN AddScaledVector(next, normal, -adjust) ELSE next

clampHorizontalSpeed(vel, maxSpeed) ==
  LET horizontalSpeed == Hypot(vel.x, vel.z)
      scale == Div(maxSpeed, horizontalSpeed)
  IN IF horizontalSpeed <= maxSpeed \/ horizontalSpeed <= EPSILON THEN vel
     ELSE [vel EXCEPT !.x = Mul(vel.x, scale), !.z = Mul(vel.z, scale)]

projectDirectionOnPlane(dir, normal) ==
  LET projected == AddScaledVector(dir, normal, -Dot(dir, normal))
  IN IF LengthSq(projected) <= EPSILON THEN ZERO ELSE Normalize(projected)

(***************************************************************************)
(* CollisionWorld.  A BufferGeometry is its position attribute (present    *)
(* or not, and its number of float components, three per vertex) and the   *)
(* surfaces its triangles form.  Every surface is a pair of triangles      *)
(* spanning the whole play area, so the closest point of a surface to the  *)
(* capsule segment is the foot of the perpendicular on its plane.          *)
(***************************************************************************)
Null == [isNull |-> TRUE]

SKIN_WIDTH == 1
SWEEP_STEPS == 12
BISECT_STEPS == 8
RESOLVE_ITERATIONS == 3
SAFE_BACKOFF == 1

CAPSULE_HEIGHT == 1802
CAPSULE_RADIUS == 348
capsule == [height |-> CAPSULE_HEIGHT, radius |-> CAPSULE_RADIUS]

\* BufferAttribute.count: items of three components
PositionCount(geometry) == geometry.components \div 3

EmptyWorld == [collisionGeometry |-> Null, collisionMesh |-> Null, threw |-> FALSE]

clear(w) == [w EXCEPT !.collisionGeometry = Null, !.collisionMesh = Null]

hasCollision(w) == w.collisionGeometry # Null

getCollisionMesh(w) == w.collisionMesh

setCollisionGeometryByComponents(w, geometry) ==
  IF ~geometry.hasPosition \/ geometry.components < 3
  THEN [clear(w) EXCEPT !.threw = TRUE]
  ELSE [collisionGeometry |-> geometry, collisionMesh |-> [name |-> "CollisionMesh"], threw |-> FALSE]

setCollisionGeometryKeepingOld(w, geometry) ==
  IF ~geometry.hasPosition \/ PositionCount(geometry) < 3
  THEN [w EXCEPT !.threw = TRUE]
  ELSE [collisionGeometry |-> geometry, collisionMesh |-> [name |-> "CollisionMesh"], threw |-> FALSE]

\* threw records that the call raised the Error of line 79
setCollisionGeometry(w, geometry) ==
  IF ~geometry.hasPosition \/ PositionCount(geometry) < 3
  THEN [clear(w) EXCEPT !.threw = TRUE]
  ELSE [collisionGeometry |-> geometry, collisionMesh |-> [name |-> "CollisionMesh"], threw |-> FALSE]

\* the segment runs from start up to start + SegmentLength
SegmentLength(cap) == Max(cap.radius + SKIN_WIDTH, cap.height - cap.radius) - cap.radius

\* signed distance of a point to the plane of a surface
PlaneSide(surface, p) == Dot(Sub(p, surface.point), surface.normal)

\* lines 296-318: one triangle pushes the capsule out along tempPush by depth
pushOut(st, tempPush, depth, resolve) ==
  [st EXCEPT !.collided = TRUE,
             !.iterCollided = TRUE,
             !.accumulatedPush = AddUnrounded(@, tempPush, depth),
             !.maxDepth = IF depth > @ THEN depth ELSE @,
             !.bestNormal = IF depth > st.maxDepth THEN tempPush ELSE @,
             !.start = IF resolve THEN AddScaledVector(@, tempPush, depth + SKIN_WIDTH) ELSE @]

\* lines 287-295: sa and sb are the signed distances of the segment ends to the surface
segmentContact(st, surface, cap, resolve, sa, sb) ==
  IF (sa <= 0 /\ sb >= 0) \/ (sa >= 0 /\ sb <= 0)
  THEN pushOut(st, surface.normal, cap.radius, resolve)
  ELSE IF Min(Abs(sa), Abs(sb)) >= cap.radius THEN st
  ELSE pushOut(st, IF sa > 0 THEN surface.normal ELSE Negate(surface.normal),
               cap.radius - Min(Abs(sa), Abs(sb)), resolve)

\* the intersectsTriangle callback of the shapecast, for one surface
intersectsTriangle(st, surface, cap, resolve) ==
  segmentContact(st, surface, cap, resolve,
                 PlaneSide(surface, st.start),
                 PlaneSide(surface, Add(st.start, Vec(0, SegmentLength(cap), 0))))

RECURSIVE shapecast(_, _, _, _, _)
shapecast(st, surfaces, i, cap, resolve) ==
  IF i > Len(surfaces) THEN st
  ELSE shapecast(intersectsTriangle(st, surfaces[i], cap, resolve), surfaces, i + 1, cap, resolve)

RECURSIVE overlapIterations(_, _, _, _, _)
\* lines 322-324: a pass that found no contact ends the loop
afterPass(after, surfaces, iterations, cap, resolve) ==
  IF ~after.iterCollided THEN after
  ELSE overlapIterations(after, surfaces, iterations, cap, resolve)

\* the for loop of lines 266-326
overlapIterations(st, surfaces, iterations, cap, resolve) ==
  IF st.passes >= iterations THEN st
  ELSE afterPass(shapecast([st EXCEPT !.iterCollided = FALSE, !.passes = @ + 1],
                           surfaces, 1, cap, resolve),
                 surfaces, iterations, cap, resolve)

\* lines 328-337
overlapResult(st, cap) ==
  [collided |-> st.collided,
   normal |-> IF st.accumulatedPush # ZERO THEN NormalizeUnrounded(st.accumulatedPush) ELSE st.bestNormal,
   depth |-> st.maxDepth,
   position |-> AddScaledVector(st.start, UP, -cap.radius),
   passes |-> st.passes]

\* lines 226-338; passes counts the correction passes of the call
computeOverlap(w, feetPosition, cap, resolve) ==
  IF w.collisionGeometry = Null
  THEN [collided |-> FALSE, normal |-> UP, depth |-> 0, position |-> feetPosition, passes |-> 0]
  ELSE overlapResult(
         overlapIterations([start |-> Vec(feetPosition.x, feetPosition.y + cap.radius, feetPosition.z),
                            collided |-> FALSE, iterCollided |-> FALSE, maxDepth |-> 0,
                            bestNormal |-> UP, accumulatedPush |-> ZERO, passes |-> 0],
                           w.collisionGeometry.surfaces,
                           IF resolve THEN RESOLVE_ITERATIONS ELSE 1, cap, resolve),
         cap)

resolveCapsulePosition(w, feetPosition, cap) == computeOverlap(w, feetPosition, cap, TRUE)

Lerp(a, b, t) == Mul(ONE - t, a) + Mul(t, b)
sampleLerp(start, end, t) == Vec(Lerp(start.x, end.x, t), Lerp(start.y, end.y, t), Lerp(start.z, end.z, t))

\* cos of 0..90 whole degrees on the grid
CosTable ==
  <<1024, 1024, 1023, 1023, 1022, 1020, 1018, 1016, 1014, 1011, 1008, 1005, 1002,
     998, 994, 989, 984, 979, 974, 968, 962, 956, 949, 943, 935, 928,
     920, 912, 904, 896, 887, 878, 868, 859, 849, 839, 828, 818, 807,
     796, 784, 773, 761, 749, 737, 724, 711, 698, 685, 672, 658, 644,
     630, 616, 602, 587, 573, 558, 543, 527, 512, 496, 481, 465, 449,
     433, 416, 400, 384, 367, 350, 333, 316, 299, 282, 265, 248, 230,
     213, 195, 178, 160, 143, 125, 107, 89, 71, 54, 36, 18, 0>>

\* PI on the grid
PI == 3217

CosDeg(d) ==
  LET m == d % 360
  IN IF m <= 90 THEN CosTable[m + 1]
     ELSE IF m <= 180 THEN -CosTable[180 - m + 1]
     ELSE IF m <= 270 THEN -CosTable[m - 180 + 1]
     ELSE CosTable[360 - m + 1]
SinDeg(d) == CosDeg(d + 270)

\* MathUtils.degToRad / radToDeg on fixed-point values
degToRad(deg) == RDiv(deg * PI, 180 * ONE)
radToDeg(rad) == RDiv(rad * 180, PI) * ONE
\* whole degrees of a fixed-point angle in radians
WholeDeg(rad) == RDiv(rad * 180, PI)
Cos(rad) == CosDeg(WholeDeg(rad))
Sin(rad) == SinDeg(WholeDeg(rad))

RECURSIVE AcosSearch(_, _, _)
AcosSearch(c, lo, hi) ==
  IF lo >= hi THEN lo
  ELSE LET mid == (lo + hi) \div 2
       IN IF CosDeg(mid) + CosDeg(mid + 1) <= 2 * c THEN AcosSearch(c, lo, mid)
          ELSE AcosSearch(c, mid + 1, hi)

\* radToDeg(Math.acos(c)) to the nearest whole degree, as a fixed-point angle
AcosDeg(c) == AcosSearch(c, 0, 180) * ONE

\* lines 159-170: the first of the twelve samples that overlaps
RECURSIVE coarseSweep(_, _, _, _, _)
coarseSweep(w, correctedStart, correctedEnd, cap, i) ==
  IF i > SWEEP_STEPS THEN [collided |-> FALSE, i |-> SWEEP_STEPS]
  ELSE IF computeOverlap(w, sampleLerp(correctedStart, correctedEnd, RDiv(i * ONE, SWEEP_STEPS)),
                         cap, FALSE).collided
       THEN [collided |-> TRUE, i |-> i]
       ELSE coarseSweep(w, correctedStart, correctedEnd, cap, i + 1)

\* lines 181-190
RECURSIVE bisect(_, _, _, _, _, _, _)
bisect(w, correctedStart, correctedEnd, cap, low, high, i) ==
  IF i >= BISECT_STEPS THEN [low |-> low, high |-> high, samples |-> i]
  ELSE IF computeOverlap(w, sampleLerp(correctedStart, correctedEnd, RDiv(low + high, 2)),
                         cap, FALSE).collided
       THEN bisect(w, correctedStart, correctedEnd, cap, low, RDiv(low + high, 2), i + 1)
       ELSE bisect(w, correctedStart, correctedEnd, cap, RDiv(low + high, 2), high, i + 1)

\* lines 200-208
impactNormal(impactOverlap, resolvedSafe) ==
  IF ~impactOverlap.collided \/ impactOverlap.normal = ZERO
  THEN (IF resolvedSafe.normal = ZERO THEN UP ELSE Normalize(resolvedSafe.normal))
  ELSE Normalize(impactOverlap.normal)

\* lines 210-215
traceHit(startResolved, sweep, refined, safeFraction, impactOverlap, resolvedSafe) ==
  [hit |-> TRUE, fraction |-> safeFraction, normal |-> impactNormal(impactOverlap, resolvedSafe),
   position |-> resolvedSafe.position,
   coarse |-> sweep.i, bisections |-> refined.samples,
   passes |-> Max(startResolved.passes, resolvedSafe.passes)]

\* lines 192-198
traceImpact(w, startResolved, correctedEnd, cap, sweep, refined, impactFraction) ==
  traceHit(startResolved, sweep, refined, Max(0, impactFraction - SAFE_BACKOFF),
           computeOverlap(w, sampleLerp(startResolved.position, correctedEnd, impactFraction), cap, FALSE),
           resolveCapsulePosition(w, sampleLerp(startResolved.position, correctedEnd,
                                                Max(0, impactFraction - SAFE_BACKOFF)), cap))

traceMissReportingHit(startResolved, sweep, resolvedEnd) ==
  [hit |-> TRUE, fraction |-> ONE, normal |-> resolvedEnd.normal,
   position |-> resolvedEnd.position,
   coarse |-> sweep.i, bisections |-> 0,
   passes |-> Max(startResolved.passes, resolvedEnd.passes)]

\* lines 172-180
traceMiss(startResolved, sweep, resolvedEnd) ==
  [hit |-> resolvedEnd.collided, fraction |-> ONE, normal |-> resolvedEnd.normal,
   position |-> resolvedEnd.position,
   coarse |-> sweep.i, bisections |-> 0,
   passes |-> Max(startResolved.passes, resolvedEnd.passes)]

\* line 192
traceBisected(w, startResolved, correctedEnd, cap, sweep, refined) ==
  traceImpact(w, startResolved, correctedEnd, cap, sweep, refined, Clamp(refined.high, 0, ONE))

\* lines 172-192
traceRefine(w, startResolved, correctedEnd, cap, sweep) ==
  IF ~sweep.collided
  THEN traceMiss(startResolved, sweep, resolveCapsulePosition(w, correctedEnd, cap))
  ELSE traceBisected(w, startResolved, correctedEnd, cap, sweep,
                     bisect(w, startResolved.position, correctedEnd, cap,
                            RDiv((sweep.i - 1) * ONE, SWEEP_STEPS), RDiv(sweep.i * ONE, SWEEP_STEPS), 0))

\* lines 143-170
traceFrom(w, startResolved, delta, cap) ==
  IF delta = ZERO
  THEN [hit |-> startResolved.collided,
        fraction |-> IF startResolved.collided THEN 0 ELSE ONE,
        normal |-> startResolved.normal, position |-> startResolved.position,
        coarse |-> 0, bisections |-> 0, passes |-> startResolved.passes]
  ELSE traceRefine(w, startResolved, Add(startResolved.position, delta), cap,
                   coarseSweep(w, startResolved.position, Add(startResolved.position, delta), cap, 1))

traceCapsuleStayingPut(w, startFeet, endFeet, cap) ==
  IF w.collisionGeometry = Null
  THEN [hit |-> FALSE, fraction |-> ONE, normal |-> UP, position |-> startFeet,
        coarse |-> 0, bisections |-> 0, passes |-> 0]
  ELSE traceFrom(w, resolveCapsulePosition(w, startFeet, cap), Sub(endFeet, startFeet), cap)

\* lines 131-216; coarse, bisections and passes count the samples and correction
\* passes of the call
traceCapsule(w, startFeet, endFeet, cap) ==
  IF w.collisionGeometry = Null
  THEN [hit |-> FALSE, fraction |-> ONE, normal |-> UP, position |-> endFeet,
        coarse |-> 0, bisections |-> 0, passes |-> 0]
  ELSE traceFrom(w, resolveCapsulePosition(w, startFeet, cap), Sub(endFeet, startFeet), cap)

\* lines 108-110: the downward trace of queryGround
groundTrace(w, feetPosition, cap, probeDistance) ==
  traceCapsule(w, feetPosition, AddScaledVector(feetPosition, DOWN, probeDistance), cap)

\* lines 111-128: the probe queryGround builds from its trace
groundProbeOf(tr, feetPosition) ==
  LET normal == IF tr.normal.y < 0 THEN Negate(tr.normal) ELSE tr.normal
      clampedDot == Clamp(Dot(normal, UP), -ONE, ONE)
  IN IF ~tr.hit THEN Null
     ELSE [distance |-> Max(0, feetPosition.y - tr.position.y),
           position |-> tr.position,
           normal |-> normal,
           slopeAngleDeg |-> AcosDeg(clampedDot)]

queryGround(w, feetPosition, cap, probeDistance) ==
  groundProbeOf(groundTrace(w, feetPosition, cap, probeDistance), feetPosition)

(***************************************************************************)
(* MovementController                                                      *)
(***************************************************************************)
WALKABLE_EPS == 512
WALKABLE_MAX_ANGLE_DEG == 40 * ONE
GROUND_PROBE_DIST == 184
SURF_PROBE_DIST == 563
GROUND_SNAP_DIST == 82
MAX_BUMPS == 4
MAX_PLANES == 4
PLANE_SIMILARITY_EPS == 1014
SURF_CONTACT_GRACE_TICKS == 20
SURF_EDGE_GROUND_OVERRIDE_MIN_ANGLE_DEG == 1 * ONE
SURF_EDGE_OVERRIDE_MIN_SPEED == 1229
SURF_EDGE_LAUNCH_MIN_SPEED == 5 * ONE
FIXED_TICK_DT == 1024

defaultCvars ==
  [sv_gravity |-> 19 * ONE,
   sv_accelerate |-> 13 * ONE,
   sv_airaccelerate |-> 120 * ONE,
   sv_friction |-> 5325,
   sv_stopspeed |-> 2458,
   sv_maxspeed |-> 9728,
   sv_jump_impulse |-> 5530,
   sv_bhop_enabled |-> TRUE,
   sv_autobhop_enabled |-> FALSE,
   surf_min_angle_deg |-> 40 * ONE,
   surf_max_angle_deg |-> 82 * ONE,
   surf_friction |-> 0,
   sv_surf_edge_clip_passthrough |-> 768,
   overbounce |-> 1025]

InitDebugState ==
  [speed |-> 0, grounded |-> FALSE, surfing |-> FALSE, slopeAngleDeg |-> 0, wishSpeed |-> 0,
   wishDir |-> ZERO, surfaceNormal |-> UP, contactPoint |-> Null, movementMode |-> "air",
   frictionApplied |-> FALSE, collisionSpeedBefore |-> 0, collisionSpeedAfter |-> 0,
   collisionSpeedDropWarn |-> FALSE, lastCollisionNormal |-> UP, lastCollisionAngleDeg |-> 0,
   recommendedStrafe |-> "NONE"]

\* the fields of a new MovementController
NewController ==
  [cvars |-> defaultCvars,
   position |-> Vec(0, 4 * ONE, 0),
   velocity |-> ZERO,
   surfContactNormal |-> UP,
   surfContactGraceTicks |-> 0,
   yawRad |-> 0,
   pitchRad |-> 0,
   debugState |-> InitDebugState]

getCvars(c) == c.cvars
setCvars(c, next) == [c EXCEPT !.cvars = [k \in DOMAIN c.cvars |-> IF k \in DOMAIN next THEN next[k] ELSE c.cvars[k]]]

resetKeepsSurfContact(c, position, yawDeg) ==
  [c EXCEPT !.position = position, !.velocity = ZERO, !.yawRad = degToRad(yawDeg), !.pitchRad = 0]

\* lines 75-82
reset(c, position, yawDeg) ==
  [c EXCEPT !.position = position, !.velocity = ZERO, !.surfContactGraceTicks = 0,
            !.surfContactNormal = UP, !.yawRad = degToRad(yawDeg), !.pitchRad = 0]

LOOK_SCALE == 2

applyLookDeltaUnclamped(c, deltaX, deltaY, sensitivity) ==
  [c EXCEPT !.yawRad = @ - deltaX * Mul(LOOK_SCALE, sensitivity),
            !.pitchRad = @ - deltaY * Mul(LOOK_SCALE, sensitivity)]

applyLookDelta(c, deltaX, deltaY, sensitivity) ==
  LET yawScale == Mul(LOOK_SCALE, sensitivity)
      pitchScale == Mul(LOOK_SCALE, sensitivity)
  IN [c EXCEPT !.yawRad = @ - deltaX * yawScale,
               !.pitchRad = Clamp(@ - deltaY * pitchScale, degToRad(-89 * ONE), degToRad(89 * ONE))]

getFeetPosition(c) == c.position
getVelocity(c) == c.velocity
setVelocity(c, velocity) == [c EXCEPT !.velocity = velocity]
setFeetPosition(c, position) == [c EXCEPT !.position = position]
getDebugState(c) == c.debugState
setCvar(c, name, value) == [c EXCEPT !.cvars[name] = value]

\* What a getter hands to its caller: the value, and in shared the parts of it that are
\* still the controller's own objects rather than copies ("self" is the returned object
\* itself).  Every getter clones, so nothing is shared.
getFeetPositionRef(c) == [getter |-> "getFeetPosition", value |-> getFeetPosition(c), shared |-> {}]
getVelocityRef(c) == [getter |-> "getVelocity", value |-> getVelocity(c), shared |-> {}]
getCvarsRef(c) == [getter |-> "getCvars", value |-> getCvars(c), shared |-> {}]

getDebugStateRefSpreadOnly(c) ==
  [getter |-> "getDebugState", value |-> getDebugState(c),
   shared |-> {"wishDir", "surfaceNormal", "contactPoint", "lastCollisionNormal"}]

\* lines 312-320: the spread copies the plain fields, the four vectors are cloned
getDebugStateRef(c) == [getter |-> "getDebugState", value |-> getDebugState(c), shared |-> {}]

\* a caller writes into an object it was handed: the object after the write
written(ref, write) ==
  IF write.field = "self" THEN [ref EXCEPT !.value = write.value]
  ELSE [ref EXCEPT !.value[write.field] = write.value]

\* the controller after that write: it changes only through a part that is shared
writeThrough(c, ref, write) ==
  IF write.field \notin ref.shared THEN c
  ELSE IF ref.getter = "getDebugState" THEN [c EXCEPT !.debugState[write.field] = write.value]
  ELSE IF ref.getter = "getCvars" THEN [c EXCEPT !.cvars[write.field] = write.value]
  ELSE IF ref.getter = "getVelocity" THEN [c EXCEPT !.velocity = write.value]
  ELSE [c EXCEPT !.position = write.value]

computeWishForwardOnly(c, input) ==
  LET forward == Vec(-Sin(c.yawRad), 0, -Cos(c.yawRad))
      wishVel == AddScaledVector(ZERO, forward, input.forwardMove)
      len == Length(wishVel)
  IN IF len <= EPSILON THEN [wishDir |-> ZERO, wishSpeed |-> 0]
     ELSE [wishDir |-> MultiplyScalar(wishVel, Div(ONE, len)),
           wishSpeed |-> Min(c.cvars.sv_maxspeed, Mul(len, c.cvars.sv_maxspeed))]

computeWish(c, input) ==
  LET forward == Vec(-Sin(c.yawRad), 0, -Cos(c.yawRad))
      right == Vec(Cos(c.yawRad), 0, -Sin(c.yawRad))
      wishVel == AddScaledVector(AddScaledVector(ZERO, forward, input.forwardMove), right, input.sideMove)
      len == Length(wishVel)
  IN IF len <= EPSILON THEN [wishDir |-> ZERO, wishSpeed |-> 0]
     ELSE [wishDir |-> MultiplyScalar(wishVel, Div(ONE, len)),
           wishSpeed |-> Min(c.cvars.sv_maxspeed, Mul(len, c.cvars.sv_maxspeed))]

getWalkableAngleDegFixed(c) == WALKABLE_MAX_ANGLE_DEG

getWalkableAngleDeg(c) == Min(WALKABLE_MAX_ANGLE_DEG, c.cvars.surf_min_angle_deg - WALKABLE_EPS)

isWalkable(c, groundProbe) ==
  IF groundProbe = Null THEN FALSE
  ELSE /\ groundProbe.distance <= GROUND_PROBE_DIST
       /\ groundProbe.slopeAngleDeg <= getWalkableAngleDeg(c)

isSurfSlope(c, groundProbe) ==
  IF groundProbe = Null THEN FALSE
  ELSE /\ groundProbe.distance <= GROUND_PROBE_DIST
       /\ groundProbe.slopeAngleDeg > getWalkableAngleDeg(c)
       /\ groundProbe.slopeAngleDeg >= c.cvars.surf_min_angle_deg
       /\ groundProbe.slopeAngleDeg <= c.cvars.surf_max_angle_deg

pickMode(c, groundProbe) ==
  IF isWalkable(c, groundProbe) THEN "ground"
  ELSE IF isSurfSlope(c, groundProbe) THEN "surf"
  ELSE "air"

upwardNormal(normal) ==
  LET n == Normalize(normal)
  IN IF n.y < 0 THEN Negate(n) ELSE n

getSurfNormalFromProbe(c, groundProbe) ==
  IF groundProbe = Null THEN Null
  ELSE IF \/ groundProbe.distance > SURF_PROBE_DIST
          \/ groundProbe.slopeAngleDeg <= getWalkableAngleDeg(c)
          \/ groundProbe.slopeAngleDeg < c.cvars.surf_min_angle_deg
          \/ groundProbe.slopeAngleDeg > c.cvars.surf_max_angle_deg
       THEN Null
       ELSE upwardNormal(groundProbe.normal)

getSurfNormalFromNormal(c, normal) ==
  IF normal = Null THEN Null
  ELSE LET normalized == upwardNormal(normal)
           angle == AcosDeg(Clamp(Dot(normalized, UP), -ONE, ONE))
       IN IF \/ angle <= getWalkableAngleDeg(c)
             \/ angle < c.cvars.surf_min_angle_deg
             \/ angle > c.cvars.surf_max_angle_deg
          THEN Null
          ELSE normalized

removeIntoRamp(velocity, normal) ==
  LET into == Dot(velocity, normal)
  IN IF into < 0 THEN AddScaledVector(velocity, normal, -into) ELSE velocity

isIntoAnyPlane(velocity, planes) == \E i \in 1..Len(planes) : Dot(velocity, planes[i]) < 0

recoverSurfEdgeSpeedUncapped(c, velocity, previousVelocity, surfNormal, speedBeforeCollision) ==
  LET currentSpeed == Length(velocity)
      rescuedVelocity == removeIntoRamp(clipVelocity(previousVelocity, surfNormal, c.cvars.overbounce),
                                        surfNormal)
  IN IF speedBeforeCollision <= 0 \/ currentSpeed >= Mul(speedBeforeCollision, 614) THEN velocity
     ELSE IF Length(rescuedVelocity) <= currentSpeed + 51 THEN velocity
     ELSE rescuedVelocity

\* lines 661-684
recoverSurfEdgeSpeed(c, velocity, previousVelocity, surfNormal, speedBeforeCollision) ==
  LET currentSpeed == Length(velocity)
      clipped == clipVelocity(previousVelocity, surfNormal, c.cvars.overbounce)
      rescuedVelocity == removeIntoRamp(clipped, surfNormal)
      rescuedSpeed == Length(rescuedVelocity)
      cappedSpeed == Min(rescuedSpeed, Mul(speedBeforeCollision, 993))
  IN IF speedBeforeCollision <= 0 \/ currentSpeed >= Mul(speedBeforeCollision, 614) THEN velocity
     ELSE IF rescuedSpeed <= currentSpeed + 51 THEN velocity
     ELSE IF cappedSpeed <= 0 THEN velocity
     ELSE SetLength(rescuedVelocity, cappedSpeed)

\* lines 126-127
jumpRequested(c, input) ==
  c.cvars.sv_bhop_enabled /\ (input.jumpPressed \/ (c.cvars.sv_autobhop_enabled /\ input.jumpHeld))

preMoveModeProbeOnly(c, groundProbe) ==
  [base |-> pickMode(c, groundProbe), mode |-> pickMode(c, groundProbe),
   activeSurfNormal |-> getSurfNormalFromProbe(c, groundProbe), preserveLaunchFromSurf |-> FALSE]

preMoveModeNoLaunch(c, groundProbe) ==
  LET base == pickMode(c, groundProbe)
      probeSurf == getSurfNormalFromProbe(c, groundProbe)
      hasWalkableProbe == groundProbe # Null /\ groundProbe.slopeAngleDeg <= getWalkableAngleDeg(c)
      graceSurf == probeSurf = Null /\ c.surfContactGraceTicks > 0 /\ ~hasWalkableProbe
      mode1 == IF graceSurf THEN "surf" ELSE base
      normal1 == IF graceSurf THEN c.surfContactNormal ELSE probeSurf
      edgeOverride ==
        /\ mode1 = "ground"
        /\ c.surfContactGraceTicks > 0
        /\ groundProbe # Null
        /\ horizontalLength(c.velocity) > SURF_EDGE_OVERRIDE_MIN_SPEED
        /\ groundProbe.slopeAngleDeg >= SURF_EDGE_GROUND_OVERRIDE_MIN_ANGLE_DEG
  IN [base |-> base,
      mode |-> IF edgeOverride THEN "surf" ELSE mode1,
      activeSurfNormal |-> IF edgeOverride /\ normal1 = Null THEN c.surfContactNormal ELSE normal1,
      preserveLaunchFromSurf |-> FALSE]

\* lines 95-122: the mode and surf normal the tick moves with
preMoveMode(c, groundProbe) ==
  LET base == pickMode(c, groundProbe)
      probeSurf == getSurfNormalFromProbe(c, groundProbe)
      walkableAngle == getWalkableAngleDeg(c)
      hasWalkableProbe == groundProbe # Null /\ groundProbe.slopeAngleDeg <= walkableAngle
      graceSurf == probeSurf = Null /\ c.surfContactGraceTicks > 0 /\ ~hasWalkableProbe
      mode1 == IF graceSurf THEN "surf" ELSE base
      normal1 == IF graceSurf THEN c.surfContactNormal ELSE probeSurf
      edgeOverride ==
        /\ mode1 = "ground"
        /\ c.surfContactGraceTicks > 0
        /\ groundProbe # Null
        /\ horizontalLength(c.velocity) > SURF_EDGE_OVERRIDE_MIN_SPEED
        /\ groundProbe.slopeAngleDeg >= SURF_EDGE_GROUND_OVERRIDE_MIN_ANGLE_DEG
      mode2 == IF edgeOverride THEN "surf" ELSE mode1
      normal2 == IF edgeOverride /\ normal1 = Null THEN c.surfContactNormal ELSE normal1
      preserveLaunchFromSurf ==
        /\ mode2 = "ground"
        /\ c.surfContactGraceTicks > 0
        /\ groundProbe # Null
        /\ groundProbe.slopeAngleDeg <= walkableAngle + ONE
        /\ horizontalLength(c.velocity) > Max(SURF_EDGE_LAUNCH_MIN_SPEED, Mul(c.cvars.sv_maxspeed, 922))
        /\ c.velocity.y <= 922
  IN [base |-> base,
      mode |-> IF preserveLaunchFromSurf THEN "air" ELSE mode2,
      activeSurfNormal |-> normal2,
      preserveLaunchFromSurf |-> preserveLaunchFromSurf]

\* lines 345-351
accelerateGround(c, velocity, wishDir, wishSpeed, dt) ==
  IF wishSpeed <= 0 \/ LengthSq(wishDir) <= 0 THEN velocity
  ELSE clampHorizontalSpeed(accelerate(velocity, wishDir, wishSpeed, c.cvars.sv_accelerate, dt, ONE),
                            c.cvars.sv_maxspeed)

\* lines 339-343
applyGroundFriction(c, velocity, dt) ==
  applyFriction(velocity, dt, c.cvars.sv_friction, c.cvars.sv_stopspeed)

modeVelocityUpdateAlwaysFriction(c, velocity, mode, jumpReq, wish, activeSurfNormal, dt) ==
  IF mode = "ground" \/ jumpReq
  THEN LET v1 == applyGroundFriction(c, velocity, dt)
           v2 == accelerateGround(c, v1, wish.wishDir, wish.wishSpeed, dt)
       IN [velocity |-> IF v2.y < 0 THEN [v2 EXCEPT !.y = 0] ELSE v2, frictionApplied |-> TRUE]
  ELSE [velocity |-> velocity, frictionApplied |-> FALSE]

\* lines 136-175: the switch on the mode after the jump step
modeVelocityUpdate(c, velocity, mode, jumpReq, wish, activeSurfNormal, dt) ==
  IF mode = "ground"
  THEN LET v1 == IF ~jumpReq THEN applyGroundFriction(c, velocity, dt) ELSE velocity
           v2 == accelerateGround(c, v1, wish.wishDir, wish.wishSpeed, dt)
       IN [velocity |-> IF v2.y < 0 THEN [v2 EXCEPT !.y = 0] ELSE v2, frictionApplied |-> ~jumpReq]
  ELSE IF mode = "surf"
  THEN IF activeSurfNormal = Null THEN [velocity |-> velocity, frictionApplied |-> FALSE]
       ELSE LET rampNormal == Normalize(activeSurfNormal)
                v1 == removeIntoRamp(clipVelocity(velocity, rampNormal, c.cvars.overbounce), rampNormal)
                surfWish == projectDirectionOnPlane(wish.wishDir, rampNormal)
                v2 == IF LengthSq(surfWish) > 0
                      THEN accelerate(v1, surfWish, wish.wishSpeed, c.cvars.sv_airaccelerate, dt, ONE)
                      ELSE v1
                v3 == removeIntoRamp(v2, rampNormal)
                frictionScale == Max(0, ONE - MulT(c.cvars.surf_friction, dt))
            IN [velocity |-> IF c.cvars.surf_friction > 0 THEN MultiplyScalar(v3, frictionScale) ELSE v3,
                frictionApplied |-> FALSE]
  ELSE [velocity |-> IF LengthSq(wish.wishDir) > 0
                     THEN accelerate(velocity, wish.wishDir, wish.wishSpeed, c.cvars.sv_airaccelerate, dt, ONE)
                     ELSE velocity,
        frictionApplied |-> FALSE]

applyGravityUnlessJumped(c, velocity, mode, jumped, dt) ==
  IF mode # "ground" /\ ~jumped THEN [velocity EXCEPT !.y = @ - MulT(c.cvars.sv_gravity, dt)]
  ELSE velocity

\* lines 177-179
applyGravity(c, velocity, mode, jumped, dt) ==
  IF mode # "ground" \/ jumped THEN [velocity EXCEPT !.y = @ - MulT(c.cvars.sv_gravity, dt)]
  ELSE velocity

\* lines 494-498
RECURSIVE clipAgainstPlanes(_, _, _, _)
clipAgainstPlanes(velocity, planes, i, overbounce) ==
  IF i > Len(planes) THEN velocity
  ELSE clipAgainstPlanes(IF Dot(velocity, planes[i]) < 0
                         THEN clipVelocity(velocity, planes[i], overbounce) ELSE velocity,
                         planes, i + 1, overbounce)

\* lines 503-521: the fastest crease velocity that enters no plane, or Null
RECURSIVE bestCrease(_, _, _, _, _)
bestCrease(planes, originalVelocity, i, j, best) ==
  IF i > Len(planes) THEN best
  ELSE IF j > Len(planes) THEN bestCrease(planes, originalVelocity, i + 1, i + 2, best)
  ELSE LET cross == CrossVectors(planes[i], planes[j])
           creaseDir == Normalize(cross)
           candidate == MultiplyScalar(creaseDir, Dot(originalVelocity, creaseDir))
           better == /\ cross # ZERO
                     /\ ~isIntoAnyPlane(candidate, planes)
                     /\ LengthSq(candidate) > (IF best = Null THEN 0 ELSE LengthSq(best))
       IN bestCrease(planes, originalVelocity, i, j + 1, IF better THEN candidate ELSE best)

remainingAfterHalvedOnly(remainingTime, fraction) ==
  IF fraction <= 0 THEN Mul(remainingTime, 512) ELSE remainingTime

\* lines 463-471 and 536-544: the remaining time after a hit
remainingAfter(remainingTime, fraction) ==
  IF fraction <= 0 THEN Mul(remainingTime, 512) ELSE Mul(remainingTime, ONE - fraction)

\* lines 463-471 and 536-544: nudge is 0.25 or 0.125 on the grid
afterHit(s, tr, velocity, dt, nudge) ==
  [s EXCEPT !.velocity = velocity,
            !.position = IF Clamp(tr.fraction, 0, ONE) <= 0 /\ velocity # ZERO
                         THEN AddScaledVectorT(@, velocity, Mul(Min(s.remainingTime, dt), nudge))
                         ELSE @,
            !.remainingTime = remainingAfter(@, Clamp(tr.fraction, 0, ONE)),
            !.afters = Append(@, remainingAfter(s.remainingTime, Clamp(tr.fraction, 0, ONE)))]

\* lines 423-428
surfGraceEdgeCollision(c, velocity, hitNormal, collisionSurfNormal) ==
  /\ collisionSurfNormal = Null
  /\ c.surfContactGraceTicks > 0
  /\ Abs(hitNormal.y) < 287
  /\ Dot(velocity, hitNormal) < -20
  /\ horizontalLength(velocity) > SURF_EDGE_OVERRIDE_MIN_SPEED

\* lines 435-439
passthrough(c, velocity, dt, edgeClipAssist) ==
  Max(Mul(capsule.radius, ONE + edgeClipAssist), Mul(MulT(horizontalLength(velocity), dt), edgeClipAssist))

\* lines 447-461: normal is the surf normal of the collision
surfClip(c, velocity, normal, hitNormal, graceEdge) ==
  IF graceEdge
  THEN removeIntoRamp(clipVelocity(removeIntoRamp(clipVelocity(velocity, normal, c.cvars.overbounce), normal),
                                   hitNormal, c.cvars.overbounce),
                      hitNormal)
  ELSE removeIntoRamp(clipVelocity(velocity, normal, c.cvars.overbounce), normal)

\* lines 527-532
orFallback(clipped, fallback) ==
  IF clipped = ZERO /\ LengthSq(fallback) > LengthSq(clipped) THEN fallback ELSE clipped

\* lines 522-524
orCrease(clipped, crease) == IF crease # Null THEN crease ELSE clipped

\* lines 500-525
creaseClip(clipped, planes, originalVelocity) ==
  IF Len(planes) >= 2 /\ isIntoAnyPlane(clipped, planes)
  THEN orCrease(clipped, bestCrease(planes, originalVelocity, 1, 2, Null))
  ELSE clipped

\* lines 490-532: the velocity after clipping against hitNormal and the planes hit so far
planeClip(c, velocity, hitNormal, planes) ==
  orFallback(creaseClip(clipAgainstPlanes(clipVelocity(velocity, hitNormal, c.cvars.overbounce),
                                          planes, 1, c.cvars.overbounce),
                        planes, velocity),
             clipVelocity(velocity, hitNormal, c.cvars.overbounce))

\* lines 534-544: blocked records, for each hit, whether it left three or more planes
\* and a velocity that still enters one of them
planeClipped(s, tr, dt, planes, clipped) ==
  afterHit([s EXCEPT !.planes = planes,
                     !.blocked = Append(@, Len(planes) >= 3 /\ isIntoAnyPlane(clipped, planes))],
           tr, clipped, dt, 128)

planeCollisionStopAtThree(c, s, tr, dt, hitNormal, planes) ==
  IF Len(planes) >= 3
  THEN [s EXCEPT !.planes = planes, !.done = TRUE, !.afters = Append(@, s.remainingTime),
                 !.blocked = Append(@, TRUE)]
  ELSE planeClipped(s, tr, dt, planes, planeClip(c, s.velocity, hitNormal, planes))

\* lines 475-544: planes already holds hitNormal unless it duplicates a plane
planeCollision(c, s, tr, dt, hitNormal, planes) ==
  IF Len(planes) > MAX_PLANES
  THEN [s EXCEPT !.planes = planes, !.done = TRUE, !.afters = Append(@, s.remainingTime),
                 !.blocked = Append(@, TRUE)]
  ELSE planeClipped(s, tr, dt, planes, planeClip(c, s.velocity, hitNormal, planes))

\* lines 423-544: what a hit does once its normals are known
collision(c, s, tr, end, dt, surfingTick, surfNormal, hitNormal, collisionSurfNormal, graceEdge) ==
  IF /\ graceEdge
     /\ Abs(Dot(hitNormal, c.surfContactNormal)) < 461
     /\ s.velocity.y <= 512
     /\ tr.fraction > 461
  THEN [s EXCEPT !.position = AddScaledVector(end, Normalize(s.velocity),
                                passthrough(c, s.velocity, dt, Max(102, c.cvars.sv_surf_edge_clip_passthrough))),
                 !.remainingTime = 0, !.done = TRUE, !.afters = Append(@, 0),
                 !.blocked = Append(@, FALSE)]
  ELSE IF surfingTick \/ collisionSurfNormal # Null \/ graceEdge
  THEN afterHit([s EXCEPT !.blocked = Append(@, FALSE)], tr,
                surfClip(c, s.velocity,
                         Normalize(IF surfNormal # Null THEN surfNormal
                                   ELSE IF collisionSurfNormal # Null THEN collisionSurfNormal
                                   ELSE IF graceEdge THEN c.surfContactNormal
                                   ELSE hitNormal),
                         hitNormal, graceEdge),
                dt, 256)
  ELSE planeCollision(c, s, tr, dt, hitNormal,
                      IF \E i \in 1..Len(s.planes) : Dot(s.planes[i], hitNormal) > PLANE_SIMILARITY_EPS
                      THEN s.planes ELSE Append(s.planes, hitNormal))

\* lines 415-421
surfNormals(c, s, tr, end, dt, surfingTick, surfNormal, hitNormal, collisionSurfNormal) ==
  collision(c,
            [s EXCEPT !.lastCollisionNormal = hitNormal,
                      !.surfCollisionNormal =
                         IF collisionSurfNormal # Null /\ (@ = Null \/ collisionSurfNormal.y < @.y)
                         THEN collisionSurfNormal ELSE @],
            tr, end, dt, surfingTick, surfNormal, hitNormal, collisionSurfNormal,
            surfGraceEdgeCollision(c, s.velocity, hitNormal, collisionSurfNormal))

\* lines 411-414
faceVelocity(normal, velocity) == IF Dot(normal, velocity) > 0 THEN Negate(normal) ELSE normal

hitNormals(c, s, tr, end, dt, surfingTick, surfNormal, hitNormal) ==
  surfNormals(c, s, tr, end, dt, surfingTick, surfNormal, hitNormal, getSurfNormalFromNormal(c, hitNormal))

\* lines 405-414: traces, coarse, bisections and passes count the work of the loop,
\* hits lists the remaining time at each trace that reported a hit, fractions the fraction
\* of that trace and afters the remaining time the iteration left
traced(c, s, tr, end, dt, surfingTick, surfNormal) ==
  IF ~tr.hit
  THEN [s EXCEPT !.position = tr.position, !.bump = @ + 1, !.traces = @ + 1, !.done = TRUE,
                 !.coarse = Max(@, tr.coarse), !.bisections = Max(@, tr.bisections),
                 !.passes = Max(@, tr.passes)]
  ELSE hitNormals(c,
                  [s EXCEPT !.position = tr.position, !.bump = @ + 1, !.traces = @ + 1,
                            !.coarse = Max(@, tr.coarse), !.bisections = Max(@, tr.bisections),
                            !.passes = Max(@, tr.passes),
                            !.hits = Append(@, s.remainingTime),
                            !.fractions = Append(@, tr.fraction)],
                  tr, end, dt, surfingTick, surfNormal,
                  faceVelocity(Normalize(tr.normal), s.velocity))

sweepToNowhere(w, c, s, end, dt, surfingTick, surfNormal) ==
  traced(c, s, traceCapsule(w, s.position, s.position, capsule), end, dt, surfingTick, surfNormal)

\* lines 403-404
sweepTo(w, c, s, end, dt, surfingTick, surfNormal) ==
  traced(c, s, traceCapsule(w, s.position, end, capsule), end, dt, surfingTick, surfNormal)

\* one iteration of the bump loop, lines 399-544
bumpStep(w, c, s, dt, surfingTick, surfNormal) ==
  IF s.velocity = ZERO \/ s.remainingTime <= 0 THEN [s EXCEPT !.done = TRUE]
  ELSE sweepTo(w, c, s, AddScaledVectorT(s.position, s.velocity, s.remainingTime),
               dt, surfingTick, surfNormal)

RECURSIVE bumpLoopOneMore(_, _, _, _, _, _)
bumpLoopOneMore(w, c, s, dt, surfingTick, surfNormal) ==
  IF s.done \/ s.bump >= MAX_BUMPS + 1 THEN s
  ELSE bumpLoopOneMore(w, c, bumpStep(w, c, s, dt, surfingTick, surfNormal), dt, surfingTick, surfNormal)

\* the for loop of line 398
RECURSIVE bumpLoop(_, _, _, _, _, _)
bumpLoop(w, c, s, dt, surfingTick, surfNormal) ==
  IF s.done \/ s.bump >= MAX_BUMPS THEN s
  ELSE bumpLoop(w, c, bumpStep(w, c, s, dt, surfingTick, surfNormal), dt, surfingTick, surfNormal)

\* lines 553-557
surfResolve(c, velocity, normal) == removeIntoRamp(clipVelocity(velocity, normal, c.cvars.overbounce), normal)

\* lines 547-559
resolveSlide(c, s, surfingTick, surfNormal, resolved) ==
  [s EXCEPT !.position = resolved.position,
            !.lastCollisionNormal = IF resolved.collided THEN resolved.normal ELSE @,
            !.velocity = IF surfingTick
                         THEN surfResolve(c, @, IF surfNormal # Null THEN surfNormal ELSE resolved.normal)
                         ELSE @,
            !.passes = Max(@, resolved.passes)]

slid(w, c, s, surfingTick, surfNormal) ==
  resolveSlide(c, s, surfingTick, surfNormal, resolveCapsulePosition(w, s.position, capsule))

\* lines 387-560
slideMove(w, c, dt, surfingTick, surfNormal) ==
  slid(w, c,
       bumpLoop(w, c,
                [position |-> c.position, velocity |-> c.velocity, remainingTime |-> dt,
                 planes |-> <<>>, lastCollisionNormal |-> Null, surfCollisionNormal |-> Null,
                 bump |-> 0, done |-> FALSE, traces |-> 0, coarse |-> 0, bisections |-> 0,
                 passes |-> 0, hits |-> <<>>, fractions |-> <<>>, afters |-> <<>>, blocked |-> <<>>],
                dt, surfingTick, surfNormal),
       surfingTick, surfNormal)

\* lines 186, 209, 218
dropWarn(collisionSpeedBefore, velocity) ==
  collisionSpeedBefore > 205 /\ Length(velocity) < Mul(collisionSpeedBefore, 512)

\* lines 221-224 and 230-232
onEdgeWall(lastCollisionNormal, velocity) ==
  /\ lastCollisionNormal # Null
  /\ Abs(lastCollisionNormal.y) < 256
  /\ horizontalLength(velocity) > SURF_EDGE_OVERRIDE_MIN_SPEED

\* lines 190-201: the surf normal of the tick's contact, or Null
contactSurfNormal(c, slide, groundProbe, mode, activeSurfNormal) ==
  IF getSurfNormalFromProbe(c, groundProbe) # Null THEN getSurfNormalFromProbe(c, groundProbe)
  ELSE IF slide.surfCollisionNormal # Null THEN slide.surfCollisionNormal
  ELSE IF getSurfNormalFromNormal(c, slide.lastCollisionNormal) # Null
  THEN getSurfNormalFromNormal(c, slide.lastCollisionNormal)
  ELSE IF /\ mode = "surf" /\ activeSurfNormal # Null /\ slide.lastCollisionNormal # Null
          /\ Abs(slide.lastCollisionNormal.y) < 461
  THEN activeSurfNormal
  ELSE Null

\* lines 210-215
edgeDrop(c, slide, collisionSpeedBefore) ==
  /\ c.surfContactGraceTicks > 0
  /\ dropWarn(collisionSpeedBefore, slide.velocity)
  /\ slide.lastCollisionNormal # Null
  /\ Abs(slide.lastCollisionNormal.y) < 358

contactVelocityUnclipped(c, slide, surfNormal, preSlideVelocity, collisionSpeedBefore) ==
  IF surfNormal # Null
  THEN recoverSurfEdgeSpeed(c, slide.velocity, preSlideVelocity, surfNormal, collisionSpeedBefore)
  ELSE IF edgeDrop(c, slide, collisionSpeedBefore)
  THEN recoverSurfEdgeSpeed(c, slide.velocity, preSlideVelocity, c.surfContactNormal, collisionSpeedBefore)
  ELSE slide.velocity

\* lines 202-219: the velocity after the surf contact rules
contactVelocity(c, slide, surfNormal, preSlideVelocity, collisionSpeedBefore) ==
  IF surfNormal # Null
  THEN recoverSurfEdgeSpeed(c, removeIntoRamp(clipVelocity(slide.velocity, surfNormal, c.cvars.overbounce),
                                              surfNormal),
                            preSlideVelocity, surfNormal, collisionSpeedBefore)
  ELSE IF edgeDrop(c, slide, collisionSpeedBefore)
  THEN recoverSurfEdgeSpeed(c, slide.velocity, preSlideVelocity, c.surfContactNormal, collisionSpeedBefore)
  ELSE slide.velocity

contactGraceNoReset(c, slide, surfNormal, velocity, collisionSpeedBefore) ==
  IF edgeDrop(c, slide, collisionSpeedBefore) THEN Max(0, c.surfContactGraceTicks - 1)
  ELSE IF c.surfContactGraceTicks > 0 /\ ~onEdgeWall(slide.lastCollisionNormal, velocity)
  THEN c.surfContactGraceTicks - 1
  ELSE c.surfContactGraceTicks

\* lines 202-228: the grace counter before the edge-wall floor of lines 229-235
contactGrace(c, slide, surfNormal, velocity, collisionSpeedBefore) ==
  IF surfNormal # Null THEN SURF_CONTACT_GRACE_TICKS
  ELSE IF edgeDrop(c, slide, collisionSpeedBefore) THEN Max(0, c.surfContactGraceTicks - 1)
  ELSE IF c.surfContactGraceTicks > 0 /\ ~onEdgeWall(slide.lastCollisionNormal, velocity)
  THEN c.surfContactGraceTicks - 1
  ELSE c.surfContactGraceTicks

\* lines 202-235
contactState(c, slide, surfNormal, velocity, collisionSpeedBefore) ==
  [velocity |-> velocity,
   surfNormal |-> surfNormal,
   surfContactNormal |-> IF surfNormal # Null THEN surfNormal ELSE c.surfContactNormal,
   surfContactGraceTicks |->
     IF onEdgeWall(slide.lastCollisionNormal, velocity)
     THEN Max(contactGrace(c, slide, surfNormal, velocity, collisionSpeedBefore), 2)
     ELSE contactGrace(c, slide, surfNormal, velocity, collisionSpeedBefore),
   collisionSpeedAfter |-> Length(velocity),
   collisionDropWarn |-> dropWarn(collisionSpeedBefore, velocity)]

contactFrom(c, slide, surfNormal, preSlideVelocity, collisionSpeedBefore) ==
  contactState(c, slide, surfNormal,
               contactVelocity(c, slide, surfNormal, preSlideVelocity, collisionSpeedBefore),
               collisionSpeedBefore)

\* lines 188-235: the surf contact bookkeeping after the slide
surfContactUpdate(c, slide, groundProbe, mode, activeSurfNormal, preSlideVelocity, collisionSpeedBefore) ==
  contactFrom(c, slide, contactSurfNormal(c, slide, groundProbe, mode, activeSurfNormal),
              preSlideVelocity, collisionSpeedBefore)

refreshDebugKeepContact(c, mode, groundProbe, wishDir, wishSpeed, frictionApplied, contactPoint, collisionSpeedBefore, collisionSpeedAfter, collisionSpeedDropWarn, lastCollisionNormal) ==
  [c EXCEPT !.debugState =
     [@ EXCEPT !.speed = horizontalLength(c.velocity),
               !.grounded = mode = "ground",
               !.surfing = mode = "surf",
               !.movementMode = mode,
               !.frictionApplied = frictionApplied,
               !.contactPoint = IF contactPoint # Null THEN contactPoint ELSE @]]

\* lines 578-584: side is the horizontal velocity along the ramp's right vector
strafeHint(mode, horizontalVelocity, side) ==
  IF mode = "surf" /\ horizontalVelocity # ZERO /\ Abs(side) > 51
  THEN (IF side > 0 THEN "D" ELSE "A") ELSE "NONE"

\* lines 562-605
refreshDebug(c, mode, groundProbe, wishDir, wishSpeed, frictionApplied, contactPoint, collisionSpeedBefore, collisionSpeedAfter, collisionSpeedDropWarn, lastCollisionNormal) ==
  [c EXCEPT !.debugState =
     [speed |-> horizontalLength(c.velocity),
      grounded |-> mode = "ground",
      surfing |-> mode = "surf",
      slopeAngleDeg |-> IF groundProbe # Null THEN groundProbe.slopeAngleDeg ELSE 90 * ONE,
      wishSpeed |-> wishSpeed,
      wishDir |-> wishDir,
      surfaceNormal |-> IF groundProbe # Null THEN groundProbe.normal ELSE UP,
      contactPoint |-> contactPoint,
      movementMode |-> mode,
      frictionApplied |-> frictionApplied,
      collisionSpeedBefore |-> collisionSpeedBefore,
      collisionSpeedAfter |-> collisionSpeedAfter,
      collisionSpeedDropWarn |-> collisionSpeedDropWarn,
      lastCollisionNormal |-> lastCollisionNormal,
      lastCollisionAngleDeg |-> AcosDeg(Clamp(Dot(lastCollisionNormal, UP), -ONE, ONE)),
      recommendedStrafe |->
        strafeHint(mode, [c.velocity EXCEPT !.y = 0],
                   Dot([c.velocity EXCEPT !.y = 0],
                       Normalize(CrossVectors(UP, IF groundProbe # Null THEN groundProbe.normal ELSE UP))))]]

jumpStepFromAnyMode(c, mode, jumpReq) ==
  [jumped |-> jumpReq,
   velocity |-> IF jumpReq THEN [c.velocity EXCEPT !.y = c.cvars.sv_jump_impulse] ELSE c.velocity,
   mode |-> IF jumpReq THEN "air" ELSE mode]

\* lines 128-134
jumpStep(c, mode, jumpReq) ==
  [jumped |-> mode \in {"ground", "surf"} /\ jumpReq,
   velocity |-> IF mode \in {"ground", "surf"} /\ jumpReq
                THEN [c.velocity EXCEPT !.y = c.cvars.sv_jump_impulse] ELSE c.velocity,
   mode |-> IF mode \in {"ground", "surf"} /\ jumpReq THEN "air" ELSE mode]

\* lines 237-243
preserveRampLaunch(c, jumped, groundProbe, contact) ==
  /\ ~jumped
  /\ contact.surfContactGraceTicks > 0
  /\ groundProbe # Null
  /\ groundProbe.slopeAngleDeg <= getWalkableAngleDeg(c) + ONE
  /\ horizontalLength(contact.velocity) > Max(SURF_EDGE_LAUNCH_MIN_SPEED, Mul(c.cvars.sv_maxspeed, 922))
  /\ contact.velocity.y <= 922

snapsWhileJumping(c, jumped, groundProbe, preserve) ==
  /\ ~preserve /\ isWalkable(c, groundProbe)
  /\ groundProbe.distance <= GROUND_SNAP_DIST

\* line 246
snaps(c, jumped, groundProbe, preserve) ==
  /\ ~preserve /\ ~jumped /\ isWalkable(c, groundProbe)
  /\ groundProbe.distance <= GROUND_SNAP_DIST

\* lines 253-259
finalMode(picked, grace, preserve) ==
  IF preserve /\ picked = "ground" THEN "air"
  ELSE IF picked = "air" /\ grace > 0 /\ ~preserve THEN "surf"
  ELSE picked

\* lines 245-272; out is the controller after the tick, the other fields record what
\* the tick decided and how much work its collision queries did
tickResult(c, t, preSlideVelocity, slide, probeTrace, groundProbe, contact, preserve, snap) ==
  [out |-> refreshDebug(
             [c EXCEPT !.position = IF snap THEN groundProbe.position ELSE slide.position,
                       !.velocity = IF snap /\ contact.velocity.y < 0
                                    THEN [contact.velocity EXCEPT !.y = 0] ELSE contact.velocity,
                       !.surfContactNormal = contact.surfContactNormal,
                       !.surfContactGraceTicks = contact.surfContactGraceTicks],
             finalMode(pickMode(c, groundProbe), contact.surfContactGraceTicks, preserve),
             groundProbe, t.wish.wishDir, t.wish.wishSpeed, t.update.frictionApplied,
             IF groundProbe # Null THEN groundProbe.position
             ELSE IF t.groundProbe0 # Null THEN t.groundProbe0.position ELSE Null,
             Length(preSlideVelocity), contact.collisionSpeedAfter, contact.collisionDropWarn,
             IF slide.lastCollisionNormal # Null THEN slide.lastCollisionNormal
             ELSE IF groundProbe # Null THEN groundProbe.normal ELSE UP),
   preMode |-> t.pre.mode,
   baseMode |-> t.pre.base,
   jumpRequested |-> t.jumpReq,
   jumped |-> t.jump.jumped,
   velocityAfterJump |-> t.jump.velocity,
   modeAfterJump |-> t.jump.mode,
   preSlideVelocity |-> preSlideVelocity,
   slideVelocity |-> slide.velocity,
   surfNormal |-> contact.surfNormal,
   snapped |-> snap,
   preserveRampLaunch |-> preserve,
   groundProbe0 |-> t.groundProbe0,
   groundProbe |-> groundProbe,
   traces |-> slide.traces,
   coarse |-> Max(slide.coarse, Max(t.probeTrace0.coarse, probeTrace.coarse)),
   bisections |-> Max(slide.bisections, Max(t.probeTrace0.bisections, probeTrace.bisections)),
   passes |-> Max(slide.passes, Max(t.probeTrace0.passes, probeTrace.passes)),
   hits |-> slide.hits,
   fractions |-> slide.fractions,
   afters |-> slide.afters,
   blocked |-> slide.blocked,
   slidePosition |-> slide.position,
   contactVelocity |-> contact.velocity,
   outPosition |-> IF snap THEN groundProbe.position ELSE slide.position,
   outVelocity |-> IF snap /\ contact.velocity.y < 0
                   THEN [contact.velocity EXCEPT !.y = 0] ELSE contact.velocity,
   updateVelocity |-> t.update.velocity,
   frictionApplied |-> t.update.frictionApplied,
   activeSurfNormal |-> t.pre.activeSurfNormal,
   preserveLaunchFromSurf |-> t.pre.preserveLaunchFromSurf,
   remainingTime |-> slide.remainingTime,
   planes |-> Len(slide.planes)]

tickPreserved(c, t, preSlideVelocity, slide, probeTrace, groundProbe, contact, preserve) ==
  tickResult(c, t, preSlideVelocity, slide, probeTrace, groundProbe, contact, preserve,
             snaps(c, t.jump.jumped, groundProbe, preserve))

tickContact(c, t, preSlideVelocity, slide, probeTrace, groundProbe, contact) ==
  tickPreserved(c, t, preSlideVelocity, slide, probeTrace, groundProbe, contact,
                preserveRampLaunch(c, t.jump.jumped, groundProbe, contact))

\* lines 188-235
tickReprobed(c, t, preSlideVelocity, slide, probeTrace, groundProbe) ==
  tickContact(c, t, preSlideVelocity, slide, probeTrace, groundProbe,
              surfContactUpdate(c, slide, groundProbe, t.jump.mode, t.pre.activeSurfNormal,
                                preSlideVelocity, Length(preSlideVelocity)))

tickProbeAfter(c, t, preSlideVelocity, slide, probeTrace) ==
  tickReprobed(c, t, preSlideVelocity, slide, probeTrace, groundProbeOf(probeTrace, slide.position))

tickSlid(c, w, t, preSlideVelocity, slide) ==
  tickProbeAfter(c, t, preSlideVelocity, slide,
                 groundTrace(w, slide.position, capsule, GROUND_PROBE_DIST))

\* lines 181-183
tickSlide(c, dt, w, t, preSlideVelocity) ==
  tickSlid(c, w, t, preSlideVelocity,
           slideMove(w, [c EXCEPT !.velocity = preSlideVelocity], dt, t.jump.mode = "surf",
                     IF t.pre.activeSurfNormal # Null THEN t.pre.activeSurfNormal
                     ELSE IF t.groundProbe0 # Null THEN t.groundProbe0.normal ELSE Null))

\* lines 177-179
tickUpdated(c, dt, w, wish, jumpReq, probeTrace0, groundProbe0, pre, jump, update) ==
  tickSlide(c, dt, w,
            [wish |-> wish, jumpReq |-> jumpReq, probeTrace0 |-> probeTrace0,
             groundProbe0 |-> groundProbe0, pre |-> pre, jump |-> jump, update |-> update],
            applyGravity(c, update.velocity, jump.mode, jump.jumped, dt))

\* lines 136-175
tickJumped(c, dt, w, wish, jumpReq, probeTrace0, groundProbe0, pre, jump) ==
  tickUpdated(c, dt, w, wish, jumpReq, probeTrace0, groundProbe0, pre, jump,
              modeVelocityUpdate(c, jump.velocity, jump.mode, jumpReq, wish, pre.activeSurfNormal, dt))

\* lines 126-134
tickPreMove(c, dt, w, wish, jumpReq, probeTrace0, groundProbe0, pre) ==
  tickJumped(c, dt, w, wish, jumpReq, probeTrace0, groundProbe0, pre, jumpStep(c, pre.mode, jumpReq))

\* lines 95-122
tickClassified(c, dt, w, wish, jumpReq, probeTrace0, groundProbe0) ==
  tickPreMove(c, dt, w, wish, jumpReq, probeTrace0, groundProbe0, preMoveMode(c, groundProbe0))

tickProbed(c, dt, w, wish, jumpReq, probeTrace0) ==
  tickClassified(c, dt, w, wish, jumpReq, probeTrace0, groundProbeOf(probeTrace0, c.position))

\* lines 92-273
tick(c, dt, input, w) ==
  tickProbed(c, dt, w, computeWish(c, input), jumpRequested(c, input),
             groundTrace(w, c.position, capsule, GROUND_PROBE_DIST))

(***************************************************************************)
(* Geometry and inputs of the specifications                               *)
(***************************************************************************)
Idle == [kind |-> "idle"]

\* the 55 degree ramp of the behaviour tests: tan(55 deg) on the grid
RAMP_TAN == 1462
RAMP_NORMAL == Normalize(Vec(RAMP_TAN, ONE, 0))

Floor == [point |-> ZERO, normal |-> UP]
Ramp == [point |-> ZERO, normal |-> RAMP_NORMAL]
Wall == [point |-> Vec(5 * ONE, 0, 0), normal |-> Vec(-ONE, 0, 0)]
Ceiling == [point |-> Vec(0, 1946, 0), normal |-> DOWN]
LowCeiling == [point |-> Vec(0, 1741, 0), normal |-> DOWN]

\* a BufferGeometry: nine position components for each triangle
Geometry(surfaces) == [hasPosition |-> TRUE, components |-> 9 * Len(surfaces), surfaces |-> surfaces]
NoPositionGeometry == [hasPosition |-> FALSE, components |-> 0, surfaces |-> <<>>]
Degenerate(components) == [hasPosition |-> TRUE, components |-> components, surfaces |-> <<>>]
FloorGeometry == Geometry(<<Floor>>)
RampGeometry == Geometry(<<Floor, Ramp>>)
WallGeometry == Geometry(<<Floor, Wall>>)
TunnelGeometry == Geometry(<<Floor, Ceiling>>)
CrawlGeometry == Geometry(<<Floor, LowCeiling>>)

\* a walkable 10 degree slope rising towards -z from the line z = -6
Slope == [point |-> Vec(0, 0, -6 * ONE), normal |-> Normalize(Vec(0, ONE, 180))]
SurfGeometry == Geometry(<<Floor, Ramp, Wall, Slope>>)
SlopeSpawn == Vec(3 * ONE, 370, -8 * ONE)
\* feet three centimetres inside the floor
SunkSpawn == Vec(3 * ONE, -30, 0)

\* a second wall that meets Wall in an acute corner at x = 5, z = 0
CornerWall == [point |-> Vec(5 * ONE, 0, 0), normal |-> Normalize(Vec(ONE, 0, 2 * ONE))]
CornerGeometry == Geometry(<<Floor, Wall, CornerWall>>)
\* feet a few centimetres from both walls of the corner
CornerSpawn == Vec(4740, 100, 620)

FloorSpawn == Vec(3 * ONE, 0, 0)
HopSpawn == Vec(3 * ONE, 51, 0)
AirSpawn == Vec(3 * ONE, 2 * ONE, 0)
RampSpawn == Vec(-2 * ONE, 3277, 0)
WallSpawn == Vec(4700, 0, 0)

(***************************************************************************)
(* Specification SpecMath: the pure functions of MovementMath.  Init draws *)
(* one call (function and arguments) from bounded sets; the action of the  *)
(* function applies it and records the result in mathCall.out.             *)
(***************************************************************************)

\* bounded input sets
MathSpeeds == {-12 * ONE, -4 * ONE, -1, 0, 1, 2 * ONE, 6 * ONE, 10 * ONE}
MathVels ==
  {Vec(vx, vy, vz) : vx \in MathSpeeds, vy \in {-4 * ONE, 0, 3 * ONE}, vz \in {-4 * ONE, 0, 1, 4 * ONE}}
MathDirs ==
  {UP, DOWN, Vec(ONE, 0, 0), Vec(0, 0, -ONE), RAMP_NORMAL, Negate(RAMP_NORMAL),
   Normalize(Vec(-ONE, 0, ONE)), Normalize(Vec(ONE, 0, ONE))}
MathOverbounce == {0, ONE \div 2, ONE, 1025, 2 * ONE}
MathDt == {1024, 2048}
MathFriction == {ONE, 5 * ONE, 5325}
MathStopspeed == {2 * ONE, 2458}
MathWishSpeed == {ONE, 9728, 10 * ONE}
MathAccel == {12 * ONE, 13 * ONE, 120 * ONE}
\* slope angles and distances of ground probes, and surf angle settings; a probe farther
\* than GROUND_PROBE_DIST is what queryGround returns when the trace first pushes the
\* capsule out of a low ceiling
MathSlopes ==
  {0, 20 * ONE, 29 * ONE + 512, 30 * ONE, 35 * ONE, 39 * ONE + 512, 39 * ONE + 513, 40 * ONE,
   40 * ONE + 512, 50 * ONE, 55 * ONE, 60 * ONE, 82 * ONE, 82 * ONE + 1, 89 * ONE, 90 * ONE}
MathDistances == {0, GROUND_SNAP_DIST, GROUND_PROBE_DIST, GROUND_PROBE_DIST + 1, 205}
MathSurfMin == {30 * ONE, 40 * ONE, 45 * ONE, 60 * ONE}
MathSurfMax == {50 * ONE, 82 * ONE}
MathProbes ==
  {Null} \cup
  {[distance |-> d, position |-> Vec(0, -d, 0),
    normal |-> Vec(SinDeg(a \div ONE), CosDeg(a \div ONE), 0), slopeAngleDeg |-> a] :
     d \in MathDistances, a \in MathSlopes}
MathControllers ==
  {[NewController EXCEPT !.cvars.surf_min_angle_deg = lo, !.cvars.surf_max_angle_deg = hi] :
     lo \in MathSurfMin, hi \in MathSurfMax}

\* surf normals: the 55 degree ramp and a 45 degree ramp
MathSurfNormals == {RAMP_NORMAL, Normalize(Vec(-ONE, ONE, 0))}

MathCalls ==
  {[fn |-> "clipVelocity", vel |-> v, dir |-> n, a |-> ob, b |-> 0, c |-> 0] :
     v \in MathVels, n \in MathDirs, ob \in MathOverbounce}
  \cup
  {[fn |-> "applyFriction", vel |-> v, dir |-> ZERO, a |-> dt, b |-> f, c |-> ss] :
     v \in MathVels, dt \in MathDt, f \in MathFriction, ss \in MathStopspeed}
  \cup
  {[fn |-> "accelerate", vel |-> v, dir |-> w, a |-> ws, b |-> ac, c |-> dt] :
     v \in MathVels, w \in MathDirs, ws \in MathWishSpeed, ac \in MathAccel, dt \in MathDt}
  \cup
  {[fn |-> "pickMode", controller |-> c, groundProbe |-> g] :
     c \in MathControllers, g \in MathProbes}
  \cup
  {[fn |-> "recoverSurfEdgeSpeed", vel |-> v, previous |-> pv, dir |-> n] :
     v \in MathVels, pv \in MathVels, n \in MathSurfNormals}

InitMath ==
  /\ \E call \in MathCalls : mathCall = [call |-> call, done |-> FALSE, out |-> ZERO]
  /\ world = Idle /\ trace = Idle /\ ctl = Idle /\ twin = Idle /\ hist = Idle

CallClipVelocity ==
  /\ ~mathCall.done
  /\ mathCall.call.fn = "clipVelocity"
  /\ mathCall' = [mathCall EXCEPT !.done = TRUE,
                    !.out = clipVelocity(mathCall.call.vel, mathCall.call.dir, mathCall.call.a)]
  /\ UNCHANGED <<world, trace, ctl, twin, hist>>

CallApplyFriction ==
  /\ ~mathCall.done
  /\ mathCall.call.fn = "applyFriction"
  /\ mathCall' = [mathCall EXCEPT !.done = TRUE,
                    !.out = applyFriction(mathCall.call.vel, mathCall.call.a, mathCall.call.b,
                                          mathCall.call.c)]
  /\ UNCHANGED <<world, trace, ctl, twin, hist>>

CallAccelerate ==
  /\ ~mathCall.done
  /\ mathCall.call.fn = "accelerate"
  /\ mathCall' = [mathCall EXCEPT !.done = TRUE,
                    !.out = accelerate(mathCall.call.vel, mathCall.call.dir, mathCall.call.a,
                                       mathCall.call.b, mathCall.call.c, ONE)]
  /\ UNCHANGED <<world, trace, ctl, twin, hist>>

CallPickMode ==
  /\ ~mathCall.done
  /\ mathCall.call.fn = "pickMode"
  /\ mathCall' = [mathCall EXCEPT !.done = TRUE,
                    !.out = pickMode(mathCall.call.controller, mathCall.call.groundProbe)]
  /\ UNCHANGED <<world, trace, ctl, twin, hist>>

\* lines 207 and 216: the speed before the collision is the length of the velocity before it
CallRecoverSurfEdgeSpeed ==
  /\ ~mathCall.done
  /\ mathCall.call.fn = "recoverSurfEdgeSpeed"
  /\ mathCall' = [mathCall EXCEPT !.done = TRUE,
                    !.out = recoverSurfEdgeSpeed(NewController, mathCall.call.vel, mathCall.call.previous,
                                                 mathCall.call.dir, Length(mathCall.call.previous))]
  /\ UNCHANGED <<world, trace, ctl, twin, hist>>

NextMath ==
  CallClipVelocity \/ CallApplyFriction \/ CallAccelerate \/ CallPickMode \/ CallRecoverSurfEdgeSpeed

SpecMath == InitMath /\ [][NextMath]_vars

Returned(fn) == mathCall.done /\ mathCall.call.fn = fn

(***************************************************************************)
(* Properties of the pure movement functions, checked under SpecMath.      *)
(***************************************************************************)

\* a normal or direction whose length is exactly one on the grid
IsUnit(n) == n.x * n.x + n.y * n.y + n.z * n.z = ONE * ONE

\* C2: for every velocity v, unit normal n and overbounce factor, the result r of
\* clipVelocity(v, n, overbounce) has r.n >= 0, so the clipped velocity never points back
\* into the surface; for a normal whose unit length the grid can only approximate, the
\* residue stays within the rounding of that approximation (3 grid units)
C2_NonPenetration ==
  Returned("clipVelocity") =>
    /\ IsUnit(mathCall.call.dir) => Dot(mathCall.out, mathCall.call.dir) >= 0
    /\ Dot(mathCall.out, mathCall.call.dir) >= -3

\* a velocity that pointed into the surface, with an overbounce below one so that the
\* first pass alone leaves a residue, has been clipped
C2_Witness ==
  /\ Returned("clipVelocity")
  /\ IsUnit(mathCall.call.dir)
  /\ mathCall.call.a < ONE
  /\ Dot(mathCall.call.vel, mathCall.call.dir) < 0
  /\ Dot(mathCall.out, mathCall.call.dir) = 0
  /\ mathCall.out # ZERO

\* C3: applyFriction (positive friction and dt, as in every call the controller makes)
\* strictly reduces the horizontal (XZ) speed whenever the input horizontal speed s is
\* greater than stopspeed, returns X and Z exactly zero when s <= EPSILON, and never
\* touches the vertical component
C3_FrictionMonotone ==
  Returned("applyFriction") =>
    /\ horizontalLength(mathCall.call.vel) > mathCall.call.c
         => horizontalLength(mathCall.out) < horizontalLength(mathCall.call.vel)
    /\ horizontalLength(mathCall.call.vel) <= EPSILON
         => mathCall.out.x = 0 /\ mathCall.out.z = 0
    /\ mathCall.out.y = mathCall.call.vel.y

\* friction has slowed, without stopping, a velocity faster than stopspeed
C3_Witness ==
  /\ Returned("applyFriction")
  /\ horizontalLength(mathCall.call.vel) > mathCall.call.c
  /\ horizontalLength(mathCall.out) > 0
  /\ horizontalLength(mathCall.out) < horizontalLength(mathCall.call.vel)

\* C4: accelerate returns vel unchanged when vel.wishDir >= wishSpeed; otherwise it adds
\* min(accel*dt*wishSpeed*surfaceFriction, wishSpeed - vel.wishDir) along wishDir, so for a
\* unit wishDir the speed along wishDir increases but never exceeds wishSpeed
C4_Accelerate ==
  Returned("accelerate") =>
    LET vel == mathCall.call.vel
        wishDir == mathCall.call.dir
        wishSpeed == mathCall.call.a
        currentSpeed == Dot(vel, wishDir)
        full == Mul(MulT(mathCall.call.b, mathCall.call.c), wishSpeed)
    IN /\ currentSpeed >= wishSpeed => mathCall.out = vel
       /\ currentSpeed < wishSpeed =>
            /\ mathCall.out = AddScaledVector(vel, wishDir, Min(full, wishSpeed - currentSpeed))
            /\ IsUnit(wishDir) =>
                 /\ Dot(mathCall.out, wishDir) > currentSpeed
                 /\ Dot(mathCall.out, wishDir) <= wishSpeed

\* a call whose full acceleration step would overshoot wishSpeed has been capped to it
C4_Witness ==
  /\ Returned("accelerate")
  /\ IsUnit(mathCall.call.dir)
  /\ Dot(mathCall.call.vel, mathCall.call.dir) < mathCall.call.a
  /\ Mul(MulT(mathCall.call.b, mathCall.call.c), mathCall.call.a)
       > mathCall.call.a - Dot(mathCall.call.vel, mathCall.call.dir)
  /\ Dot(mathCall.out, mathCall.call.dir) = mathCall.call.a

\* the slope at or below which a probe is walkable, as the specification words it
WalkableSlope(c) == Min(40 * ONE, c.cvars.surf_min_angle_deg - ONE \div 2)

\* C8 as stated: a probe with slope <= min(40, surf_min_angle_deg - 0.5) gives ground;
\* otherwise a probe with slope in [surf_min_angle_deg, surf_max_angle_deg] gives surf;
\* otherwise (including no probe) air
C8_AsStated ==
  Returned("pickMode") =>
    LET c == mathCall.call.controller
        g == mathCall.call.groundProbe
    IN mathCall.out =
         IF g # Null /\ g.slopeAngleDeg <= WalkableSlope(c) THEN "ground"
         ELSE IF g # Null /\ g.slopeAngleDeg >= c.cvars.surf_min_angle_deg
                 /\ g.slopeAngleDeg <= c.cvars.surf_max_angle_deg THEN "surf"
         ELSE "air"

\* C8: base mode classification is a total function of the ground probe and the cvars: a
\* probe no farther than GROUND_PROBE_DIST with slope <= min(40, surf_min_angle_deg - 0.5)
\* gives ground; otherwise a probe no farther than GROUND_PROBE_DIST with slope in
\* [surf_min_angle_deg, surf_max_angle_deg] gives surf; otherwise (no probe, or a probe
\* farther away) air; and no probe is both walkable and a surf slope
C8_Classification ==
  Returned("pickMode") =>
    LET c == mathCall.call.controller
        g == mathCall.call.groundProbe
        near == g # Null /\ g.distance <= GROUND_PROBE_DIST
    IN /\ mathCall.out =
            IF near /\ g.slopeAngleDeg <= WalkableSlope(c) THEN "ground"
            ELSE IF near /\ g.slopeAngleDeg >= c.cvars.surf_min_angle_deg
                    /\ g.slopeAngleDeg <= c.cvars.surf_max_angle_deg THEN "surf"
            ELSE "air"
       /\ ~(isWalkable(c, g) /\ isSurfSlope(c, g))

\* a flat probe farther away than GROUND_PROBE_DIST has been classified as air
C8_Witness ==
  /\ Returned("pickMode")
  /\ mathCall.call.groundProbe # Null
  /\ mathCall.call.groundProbe.distance > GROUND_PROBE_DIST
  /\ mathCall.call.groundProbe.slopeAngleDeg <= WalkableSlope(mathCall.call.controller)
  /\ mathCall.out = "air"

\* C23: edge-speed recovery changes the velocity only when the post-collision speed is
\* below 60% of the pre-collision speed; when it adopts the reconstructed velocity the
\* resulting speed is strictly greater than the speed before recovery and at most 97% of
\* the pre-collision speed (setLength reaches the capped speed within one grid unit)
C23_EdgeSpeedRecovery ==
  Returned("recoverSurfEdgeSpeed") /\ mathCall.out # mathCall.call.vel =>
    /\ Length(mathCall.call.vel) < Mul(Length(mathCall.call.previous), 614)
    /\ Length(mathCall.out) > Length(mathCall.call.vel)
    /\ Length(mathCall.out) <= Mul(Length(mathCall.call.previous), 993) + 1

\* a velocity along the ramp that a collision cut to a crawl: the reconstructed velocity
\* is as fast as before the collision, and it is adopted at the cap of 97%
C23_Witness ==
  /\ Returned("recoverSurfEdgeSpeed")
  /\ mathCall.call.dir = RAMP_NORMAL
  /\ Dot(mathCall.call.previous, RAMP_NORMAL) = 0
  /\ Length(mathCall.call.vel) > 0
  /\ Length(mathCall.call.vel) < Mul(Length(mathCall.call.previous), 614)
  /\ mathCall.out # mathCall.call.vel
  /\ Abs(Length(mathCall.out) - Mul(Length(mathCall.call.previous), 993)) <= 1

(***************************************************************************)
(* Specification SpecWorld: one CollisionWorld and its callers.  trace     *)
(* records the last call, its arguments and what it returned, and          *)
(* hist.replaced the geometry that the last call removed by failing.       *)
(***************************************************************************)
WorldGeometries ==
  {NoPositionGeometry, Degenerate(0), Degenerate(2), Degenerate(3), Degenerate(6), Degenerate(8),
   FloorGeometry, RampGeometry, TunnelGeometry}

WorldPoints ==
  {FloorSpawn, HopSpawn, AirSpawn, RampSpawn, Vec(3 * ONE, 205, 0), Vec(3 * ONE, -102, 0)}

ProbeDistances == {GROUND_PROBE_DIST, SURF_PROBE_DIST}

InitWorld ==
  /\ world = EmptyWorld
  /\ trace = [op |-> "new"]
  /\ hist = [replaced |-> Null]
  /\ mathCall = Idle /\ ctl = Idle /\ twin = Idle

SetCollisionGeometry ==
  \E geometry \in WorldGeometries :
    /\ world' = setCollisionGeometry(world, geometry)
    /\ trace' = [op |-> "setCollisionGeometry", geometry |-> geometry, before |-> world]
    /\ hist' = [replaced |-> IF setCollisionGeometry(world, geometry).threw
                             THEN world.collisionGeometry ELSE Null]
    /\ UNCHANGED <<mathCall, ctl, twin>>

Clear ==
  /\ world' = [clear(world) EXCEPT !.threw = FALSE]
  /\ trace' = [op |-> "clear"]
  /\ hist' = [replaced |-> Null]
  /\ UNCHANGED <<mathCall, ctl, twin>>

TraceCapsule ==
  \E startFeet \in WorldPoints, endFeet \in WorldPoints :
    /\ trace' = [op |-> "traceCapsule", startFeet |-> startFeet, endFeet |-> endFeet,
                 result |-> traceCapsule(world, startFeet, endFeet, capsule)]
    /\ UNCHANGED <<mathCall, world, ctl, twin, hist>>

QueryGround ==
  \E feetPosition \in WorldPoints, probeDistance \in ProbeDistances :
    /\ trace' = [op |-> "queryGround", feetPosition |-> feetPosition, probeDistance |-> probeDistance,
                 result |-> queryGround(world, feetPosition, capsule, probeDistance),
                 work |-> groundTrace(world, feetPosition, capsule, probeDistance)]
    /\ UNCHANGED <<mathCall, world, ctl, twin, hist>>

ResolveCapsulePosition ==
  \E feetPosition \in WorldPoints :
    /\ trace' = [op |-> "resolveCapsulePosition", feetPosition |-> feetPosition,
                 result |-> resolveCapsulePosition(world, feetPosition, capsule)]
    /\ UNCHANGED <<mathCall, world, ctl, twin, hist>>

NextWorld == SetCollisionGeometry \/ Clear \/ TraceCapsule \/ QueryGround \/ ResolveCapsulePosition

SpecWorld == InitWorld /\ [][NextWorld]_vars

(***************************************************************************)
(* Properties of the collision world, checked under SpecWorld.             *)
(***************************************************************************)

\* the number of position components a geometry supplies
SuppliedComponents(geometry) == IF geometry.hasPosition THEN geometry.components ELSE 0

\* C5 as stated: setting collision geometry fails exactly when fewer than 3 position
\* components are supplied; any input with at least 3 position components is accepted and
\* becomes the active geometry
C5_AsStated ==
  trace.op = "setCollisionGeometry" =>
    /\ world.threw <=> SuppliedComponents(trace.geometry) < 3
    /\ SuppliedComponents(trace.geometry) >= 3 => world.collisionGeometry = trace.geometry

\* C5: setting collision geometry fails exactly when the position attribute is missing or
\* holds fewer than 3 vertices (fewer than 9 components); a failed call leaves the world
\* without geometry, whatever it held before; any other input is accepted and becomes the
\* active geometry
C5_SetGeometry ==
  trace.op = "setCollisionGeometry" =>
    /\ world.threw <=> SuppliedComponents(trace.geometry) < 3 * 3
    /\ world.threw => world.collisionGeometry = Null /\ world.collisionMesh = Null
    /\ ~world.threw => world.collisionGeometry = trace.geometry

\* a geometry with one or two whole vertices was rejected and the geometry that was active
\* before the call is gone
C5_Witness ==
  /\ trace.op = "setCollisionGeometry"
  /\ SuppliedComponents(trace.geometry) >= 3
  /\ world.threw
  /\ trace.before.collisionGeometry # Null
  /\ world.collisionGeometry = Null

\* C6: while the collision world holds no geometry (never set, after clear(), or after a
\* rejected set), traceCapsule returns hit = false, fraction = 1 and the requested end
\* position; queryGround returns none; resolveCapsulePosition returns collided = false,
\* depth 0 and the input position
C6_NoGeometryNoHit ==
  world.collisionGeometry = Null =>
    /\ trace.op = "traceCapsule" =>
         /\ ~trace.result.hit
         /\ trace.result.fraction = ONE
         /\ trace.result.position = trace.endFeet
    /\ trace.op = "queryGround" => trace.result = Null
    /\ trace.op = "resolveCapsulePosition" =>
         /\ ~trace.result.collided
         /\ trace.result.depth = 0
         /\ trace.result.position = trace.feetPosition

\* a sweep between two different points was answered by a world whose geometry was
\* rejected
C6_Witness ==
  /\ world.collisionGeometry = Null
  /\ world.threw
  /\ trace.op = "traceCapsule"
  /\ trace.startFeet # trace.endFeet
  /\ trace.result.position = trace.endFeet

\* C30: a rejected setCollisionGeometry call does not leave the previous geometry active:
\* after the call throws, hasCollision() is false and getCollisionMesh() is none, and the
\* queries that follow return no hit, until a valid geometry is set
C30_RejectedSetLeavesNothing ==
  /\ world.threw =>
       /\ ~hasCollision(world)
       /\ getCollisionMesh(world) = Null
       /\ trace.op = "traceCapsule" => ~trace.result.hit /\ trace.result.fraction = ONE
       /\ trace.op = "queryGround" => trace.result = Null
       /\ trace.op = "resolveCapsulePosition" => ~trace.result.collided
  /\ trace.op = "setCollisionGeometry" /\ ~world.threw =>
       /\ hasCollision(world)
       /\ getCollisionMesh(world) # Null

\* the floor was active when a geometry was rejected, and a ground query made afterwards
\* found nothing where the floor would have been found
C30_Witness ==
  /\ world.threw
  /\ hist.replaced = FloorGeometry
  /\ trace.op = "queryGround"
  /\ trace.result = Null
  /\ queryGround(setCollisionGeometry(EmptyWorld, FloorGeometry), trace.feetPosition, capsule,
                 trace.probeDistance) # Null

\* the traces of the last call: the result of traceCapsule, or the downward trace that
\* queryGround made
LastTraces ==
  IF trace.op = "traceCapsule"
  THEN {[startFeet |-> trace.startFeet, endFeet |-> trace.endFeet, result |-> trace.result]}
  ELSE IF trace.op = "queryGround"
  THEN {[startFeet |-> trace.feetPosition,
         endFeet |-> AddScaledVector(trace.feetPosition, DOWN, trace.probeDistance),
         result |-> trace.work]}
  ELSE {}

\* a sweep over a real path through real geometry none of whose twelve samples collided
NoSampleCollided(t) ==
  /\ world.collisionGeometry # Null
  /\ t.startFeet # t.endFeet
  /\ t.result.coarse = SWEEP_STEPS
  /\ t.result.bisections = 0

\* C12: every TraceResult returned by traceCapsule has fraction in [0,1]; when no sample
\* along the swept path collides the result is hit = false with fraction = 1 and the
\* resolved end position (the corrected start moved by the requested displacement); a
\* result with hit = false always has fraction = 1
C12_TraceResult ==
  \A t \in LastTraces :
    /\ t.result.fraction >= 0 /\ t.result.fraction <= ONE
    /\ ~t.result.hit => t.result.fraction = ONE
    /\ NoSampleCollided(t) =>
         /\ ~t.result.hit
         /\ t.result.fraction = ONE
         /\ t.result.position =
              Add(resolveCapsulePosition(world, t.startFeet, capsule).position,
                  Sub(t.endFeet, t.startFeet))

\* a sweep that started inside the ceiling was pushed out and then ran its whole path
\* without a collision
C12_Witness ==
  /\ trace.op = "traceCapsule"
  /\ \E t \in LastTraces :
       /\ NoSampleCollided(t)
       /\ ~t.result.hit
       /\ t.result.position # t.endFeet

(***************************************************************************)
(* Specification Spec: the game's controller ticking against its           *)
(* CollisionWorld.  twin is a second controller that receives every call   *)
(* ctl receives; before the first common tick it may have run on its own,  *)
(* so that the two differ in the debug snapshot alone.  hist counts the     *)
(* calls and keeps what the last tick decided.                             *)
(***************************************************************************)
MaxTicks == 2
MaxSetups == 1

Maps ==
  {[geometry |-> FloorGeometry, spawn |-> FloorSpawn],
   [geometry |-> FloorGeometry, spawn |-> HopSpawn],
   [geometry |-> FloorGeometry, spawn |-> AirSpawn],
   [geometry |-> RampGeometry, spawn |-> RampSpawn],
   [geometry |-> WallGeometry, spawn |-> WallSpawn],
   [geometry |-> CrawlGeometry, spawn |-> FloorSpawn],
   [geometry |-> Degenerate(6), spawn |-> FloorSpawn],
   [geometry |-> NoPositionGeometry, spawn |-> FloorSpawn]}

NoInput == [forwardMove |-> 0, sideMove |-> 0, jumpPressed |-> FALSE, jumpHeld |-> FALSE]
Inputs ==
  {NoInput,
   [NoInput EXCEPT !.forwardMove = ONE],
   [NoInput EXCEPT !.forwardMove = ONE, !.jumpPressed = TRUE, !.jumpHeld = TRUE],
   [NoInput EXCEPT !.sideMove = ONE, !.jumpHeld = TRUE]}

Velocities == {Vec(0, 0, -8 * ONE), Vec(0, -3 * ONE, 0), Vec(6 * ONE, 0, 0)}

CvarChanges == {[sv_autobhop_enabled |-> TRUE], [sv_bhop_enabled |-> FALSE]}

LookDeltas == {[deltaX |-> 357, deltaY |-> 0], [deltaX |-> 0, deltaY |-> 900]}

Init ==
  /\ world = EmptyWorld
  /\ ctl = NewController
  /\ twin = NewController
  /\ hist = [setups |-> 0, ticks |-> 0, synced |-> TRUE, allHeld |-> TRUE,
             spawn |-> NewController.position, last |-> Idle]
  /\ mathCall = Idle /\ trace = Idle

\* GameApp loads a map: the geometry is set and, unless that throws, the player respawns
Loaded(w, map) ==
  /\ world' = w
  /\ ctl' = IF w.threw THEN ctl ELSE reset(ctl, map.spawn, 0)
  /\ twin' = IF w.threw THEN twin ELSE reset(twin, map.spawn, 0)
  /\ hist' = [hist EXCEPT !.synced = IF w.threw THEN @ ELSE TRUE,
                          !.spawn = IF w.threw THEN @ ELSE map.spawn]

LoadMap ==
  \E map \in Maps :
    /\ hist.ticks = 0 /\ hist.setups = 0
    /\ Loaded(setCollisionGeometry(world, map.geometry), map)
    /\ UNCHANGED <<mathCall, trace>>

\* twin alone runs one tick
TwinTick ==
  /\ hist.ticks = 0 /\ hist.setups = 0
  /\ twin = ctl
  /\ twin' = tick(twin, FIXED_TICK_DT, [NoInput EXCEPT !.forwardMove = ONE], world).out
  /\ hist' = [hist EXCEPT !.synced = FALSE]
  /\ UNCHANGED <<mathCall, world, trace, ctl>>

Respawn ==
  /\ ~hist.synced
  /\ ctl' = reset(ctl, hist.spawn, 0)
  /\ twin' = reset(twin, hist.spawn, 0)
  /\ hist' = [hist EXCEPT !.synced = TRUE]
  /\ UNCHANGED <<mathCall, world, trace>>

SetVelocity ==
  \E velocity \in Velocities :
    /\ hist.synced /\ hist.ticks = 0 /\ hist.setups < MaxSetups
    /\ ctl' = setVelocity(ctl, velocity)
    /\ twin' = setVelocity(twin, velocity)
    /\ hist' = [hist EXCEPT !.setups = @ + 1]
    /\ UNCHANGED <<mathCall, world, trace>>

SetCvars ==
  \E next \in CvarChanges :
    /\ hist.synced /\ hist.ticks = 0 /\ hist.setups < MaxSetups
    /\ ctl' = setCvars(ctl, next)
    /\ twin' = setCvars(twin, next)
    /\ hist' = [hist EXCEPT !.setups = @ + 1]
    /\ UNCHANGED <<mathCall, world, trace>>

ApplyLookDelta ==
  \E look \in LookDeltas :
    /\ hist.synced /\ hist.ticks = 0 /\ hist.setups < MaxSetups
    /\ ctl' = applyLookDelta(ctl, look.deltaX, look.deltaY, ONE)
    /\ twin' = applyLookDelta(twin, look.deltaX, look.deltaY, ONE)
    /\ hist' = [hist EXCEPT !.setups = @ + 1]
    /\ UNCHANGED <<mathCall, world, trace>>

Ticked(input, r, rt) ==
  /\ ctl' = r.out
  /\ twin' = rt.out
  /\ hist' = [hist EXCEPT !.ticks = @ + 1,
                          !.allHeld = @ /\ input.jumpHeld,
                          !.last = [input |-> input, before |-> ctl, twinBefore |-> twin,
                                    info |-> [r EXCEPT !.out = Null]]]

\* twin takes the same tick; a twin that is the same record as ctl, debug snapshot
\* included, is not computed a second time
TickBoth(input, r) ==
  Ticked(input, r, IF twin = ctl THEN r ELSE tick(twin, FIXED_TICK_DT, input, world))

Tick ==
  \E input \in Inputs :
    /\ hist.synced /\ hist.ticks < MaxTicks
    /\ TickBoth(input, tick(ctl, FIXED_TICK_DT, input, world))
    /\ UNCHANGED <<mathCall, world, trace>>

Next == LoadMap \/ TwinTick \/ Respawn \/ SetVelocity \/ SetCvars \/ ApplyLookDelta \/ Tick

Spec == Init /\ [][Next]_vars


(***************************************************************************)
(* Properties of the controller, checked under Spec.                       *)
(***************************************************************************)

\* the state the tick reads: everything but the published debug snapshot
Kinematic(c) ==
  [position |-> c.position, velocity |-> c.velocity, yawRad |-> c.yawRad, pitchRad |-> c.pitchRad,
   surfContactNormal |-> c.surfContactNormal, surfContactGraceTicks |-> c.surfContactGraceTicks,
   cvars |-> c.cvars]

\* C1: tick is deterministic: two controllers that start with identical feet position,
\* velocity, yaw/pitch, surf-contact normal, grace counter and cvars, and are stepped
\* through the same sequence of (dt, input, look delta) against the same geometry, have
\* identical position, velocity, grace counter, surf-contact normal and debug snapshot
\* after every tick, whatever their debug snapshots were before
C1_Deterministic ==
  hist.synced =>
    /\ Kinematic(ctl) = Kinematic(twin)
    /\ hist.ticks > 0 => ctl.debugState = twin.debugState

\* two controllers whose debug snapshots differed have gone through a common tick on the
\* ramp
C1_Witness ==
  /\ hist.synced
  /\ hist.ticks > 0
  /\ Kinematic(hist.last.twinBefore) = Kinematic(hist.last.before)
  /\ hist.last.twinBefore.debugState # hist.last.before.debugState
  /\ ctl = twin
  /\ ctl.position # hist.last.before.position
  /\ ctl.position # hist.spawn
  /\ ctl.surfContactGraceTicks > 0

\* C7: every tick terminates after a bounded number of steps: the bump loop performs at
\* most 4 sweep traces, each sweep trace tests at most 12 coarse samples plus 8 bisection
\* samples, and each overlap resolution runs at most 3 correction passes
C7_BoundedWork ==
  hist.ticks > 0 =>
    /\ hist.last.info.traces <= 4
    /\ hist.last.info.coarse <= 12
    /\ hist.last.info.bisections <= 8
    /\ hist.last.info.passes <= 3

\* a tick has used all 4 sweep traces, all 8 bisection samples and all 3 correction passes
C7_Witness ==
  /\ hist.ticks > 0
  /\ hist.last.info.traces = 4
  /\ hist.last.info.bisections = 8
  /\ hist.last.info.passes = 3

\* C9: a jump happens in a tick if and only if bhop is enabled, and (jumpPressed is set, or
\* auto-bhop is enabled and jumpHeld is set), and the pre-move mode is ground or surf; when
\* it happens vertical velocity is set to sv_jump_impulse and the movement steps of the rest
\* of the tick run in air mode: no ground friction, gravity applied, no ground snap.  No
\* jump happens from air mode or while bhop is disabled.
C9_Jump ==
  hist.ticks > 0 =>
    LET cvars == hist.last.before.cvars
        input == hist.last.input
        info == hist.last.info
    IN /\ info.jumped <=>
            /\ cvars.sv_bhop_enabled
            /\ input.jumpPressed \/ (cvars.sv_autobhop_enabled /\ input.jumpHeld)
            /\ info.preMode \in {"ground", "surf"}
       /\ info.jumped =>
            /\ info.velocityAfterJump.y = cvars.sv_jump_impulse
            /\ info.modeAfterJump = "air"
            /\ ~ctl.debugState.frictionApplied
            /\ info.preSlideVelocity.y = cvars.sv_jump_impulse - MulT(cvars.sv_gravity, FIXED_TICK_DT)
            /\ ~info.snapped
       /\ info.preMode = "air" \/ ~cvars.sv_bhop_enabled => ~info.jumped

\* a jump from surf mode, started by holding jump under auto-bhop
C9_Witness ==
  /\ hist.ticks > 0
  /\ hist.last.info.jumped
  /\ hist.last.info.preMode = "surf"
  /\ ~hist.last.input.jumpPressed
  /\ hist.last.before.velocity.y # hist.last.before.cvars.sv_jump_impulse

\* C10: bunnyhop chaining loses no speed to ground friction: with bhop and auto-bhop
\* enabled and jump held on every tick, no tick applies ground friction (the published
\* frictionApplied flag is false after every tick)
C10_NoFrictionWhileHopping ==
  /\ hist.ticks > 0
  /\ ctl.cvars.sv_bhop_enabled
  /\ ctl.cvars.sv_autobhop_enabled
  /\ hist.allHeld
  => ~ctl.debugState.frictionApplied

\* on the flat floor two ticks in a row have jumped off the ground with jump held, and the
\* player is moving
C10_Witness ==
  /\ world.collisionGeometry = FloorGeometry
  /\ hist.ticks = 2
  /\ ctl.cvars.sv_bhop_enabled
  /\ ctl.cvars.sv_autobhop_enabled
  /\ hist.allHeld
  /\ ~hist.last.input.jumpPressed
  /\ hist.last.info.preMode = "ground"
  /\ hist.last.info.jumped
  /\ hist.last.before.debugState.movementMode = "ground"
  /\ horizontalLength(ctl.velocity) > horizontalLength(hist.last.before.velocity)

\* C27: in a world with no geometry, with the grace counter at 0 and zero move input, a
\* tick leaves the horizontal velocity unchanged (no friction, no clamp), decreases vertical
\* velocity by exactly sv_gravity*dt, advances the feet position by the updated velocity
\* times dt, leaves the grace counter at 0 and publishes mode air
C27_FreeFall ==
  /\ hist.ticks > 0
  /\ world.collisionGeometry = Null
  /\ hist.last.before.surfContactGraceTicks = 0
  /\ hist.last.input.forwardMove = 0 /\ hist.last.input.sideMove = 0
  => /\ ctl.velocity.x = hist.last.before.velocity.x
     /\ ctl.velocity.z = hist.last.before.velocity.z
     /\ ctl.velocity.y =
          hist.last.before.velocity.y - MulT(hist.last.before.cvars.sv_gravity, FIXED_TICK_DT)
     /\ ctl.position = AddScaledVectorT(hist.last.before.position, ctl.velocity, FIXED_TICK_DT)
     /\ ctl.surfContactGraceTicks = 0
     /\ ctl.debugState.movementMode = "air"
     /\ ~ctl.debugState.frictionApplied

\* the second tick of a fall through the empty world at 6 m/s sideways: it kept the
\* sideways speed and moved the controller sideways and down
C27_Witness ==
  /\ hist.ticks = 2
  /\ world.collisionGeometry = Null
  /\ hist.last.input = NoInput
  /\ hist.last.before.velocity.x = 6 * ONE
  /\ hist.last.before.velocity.y < 0
  /\ ctl.velocity.x = 6 * ONE
  /\ ctl.position.x > hist.last.before.position.x
  /\ ctl.position.y < hist.last.before.position.y
  /\ ctl.debugState.movementMode = "air"


(***************************************************************************)
(* Specification SpecApi: one controller on the flat floor and a caller    *)
(* that uses its public methods in any order and writes into the objects   *)
(* the getters hand out.  trace holds the last call and the object the     *)
(* caller holds; hist.published is the debug snapshot of the last tick.    *)
(***************************************************************************)

MaxApiTicks == 2
MaxApiCalls == 2

ApiInputs == {NoInput, [NoInput EXCEPT !.forwardMove = ONE, !.jumpPressed = TRUE, !.jumpHeld = TRUE]}
ApiLooks == {[deltaX |-> 357, deltaY |-> 500], [deltaX |-> 0, deltaY |-> -900]}
ApiVectors == {Vec(6 * ONE, 0, 0), Vec(0, ONE, 0)}
ApiCvars == {[name |-> "sv_gravity", value |-> 0], [name |-> "sv_autobhop_enabled", value |-> TRUE]}

\* what a caller can write into an object of each getter
ApiWrites(ref) ==
  IF ref.getter = "getDebugState"
  THEN <<[field |-> "wishDir", value |-> Vec(ONE, 0, 0)],
         [field |-> "lastCollisionNormal", value |-> DOWN],
         [field |-> "speed", value |-> 7 * ONE],
         [field |-> "movementMode", value |-> "surf"]>>
  ELSE IF ref.getter = "getCvars" THEN <<[field |-> "sv_gravity", value |-> ONE]>>
  ELSE <<[field |-> "self", value |-> Vec(ONE, ONE, ONE)]>>

InitApi ==
  /\ world = setCollisionGeometry(EmptyWorld, FloorGeometry)
  /\ ctl = NewController
  /\ trace = [op |-> "new"]
  /\ hist = [ticks |-> 0, calls |-> 0, published |-> NewController.debugState]
  /\ mathCall = Idle /\ twin = Idle

ApiTicked(out) ==
  /\ ctl' = out
  /\ hist' = [hist EXCEPT !.ticks = @ + 1, !.published = out.debugState]
  /\ trace' = [op |-> "tick"]

ApiTick ==
  \E input \in ApiInputs :
    /\ hist.ticks < MaxApiTicks
    /\ ApiTicked(tick(ctl, FIXED_TICK_DT, input, world).out)
    /\ UNCHANGED <<mathCall, world, twin>>

\* a call that hands nothing out
ApiCalled(op, out) ==
  /\ hist.calls < MaxApiCalls
  /\ ctl' = out
  /\ hist' = [hist EXCEPT !.calls = @ + 1]
  /\ trace' = [op |-> op, before |-> ctl]
  /\ UNCHANGED <<mathCall, world, twin>>

ApiReset == \E position \in {FloorSpawn, AirSpawn} : ApiCalled("reset", reset(ctl, position, -90 * ONE))

ApiSetVelocity == \E velocity \in ApiVectors : ApiCalled("setVelocity", setVelocity(ctl, velocity))

ApiSetFeetPosition == \E position \in {FloorSpawn} : ApiCalled("setFeetPosition", setFeetPosition(ctl, position))

ApiSetCvar == \E cvar \in ApiCvars : ApiCalled("setCvar", setCvar(ctl, cvar.name, cvar.value))

ApiSetCvars == ApiCalled("setCvars", setCvars(ctl, [sv_bhop_enabled |-> FALSE, overbounce |-> ONE]))

ApiApplyLookDelta ==
  \E look \in ApiLooks : ApiCalled("applyLookDelta", applyLookDelta(ctl, look.deltaX, look.deltaY, ONE))

ApiGot(ref) ==
  /\ trace' = [op |-> "get", ref |-> ref, before |-> ctl]
  /\ UNCHANGED <<mathCall, world, ctl, twin, hist>>

ApiGet ==
  \/ ApiGot(getDebugStateRef(ctl))
  \/ ApiGot(getVelocityRef(ctl))
  \/ ApiGot(getFeetPositionRef(ctl))
  \/ ApiGot(getCvarsRef(ctl))

\* the caller writes into the object it holds
ApiWrite ==
  /\ trace.op \in {"get", "write"}
  /\ \E i \in 1..Len(ApiWrites(trace.ref)) :
       /\ trace' = [op |-> "write", ref |-> written(trace.ref, ApiWrites(trace.ref)[i]), before |-> ctl]
       /\ ctl' = writeThrough(ctl, trace.ref, ApiWrites(trace.ref)[i])
  /\ UNCHANGED <<mathCall, world, twin, hist>>

NextApi ==
  \/ ApiTick \/ ApiReset \/ ApiSetVelocity \/ ApiSetFeetPosition \/ ApiSetCvar \/ ApiSetCvars
  \/ ApiApplyLookDelta \/ ApiGet \/ ApiWrite

SpecApi == InitApi /\ [][NextApi]_vars

\* C13: after any sequence of applyLookDelta, tick and reset calls, the controller's pitch
\* lies within [-89 degrees, +89 degrees]
C13_PitchClamped ==
  /\ ctl.pitchRad >= degToRad(-89 * ONE)
  /\ ctl.pitchRad <= degToRad(89 * ONE)

\* a look delta that would have passed the limit left the pitch at exactly 89 degrees,
\* and a tick followed
C13_Witness ==
  /\ ctl.pitchRad = degToRad(89 * ONE)
  /\ hist.ticks > 0
  /\ hist.calls > 0

\* C14: the published debug snapshot changes only as the result of a tick: getDebugState,
\* getVelocity, getFeetPosition and getCvars return independent copies, so writing into a
\* returned value never changes the controller's state or a later snapshot, and reset,
\* setVelocity, setFeetPosition, setCvar(s) and applyLookDelta leave the snapshot unchanged
C14_SnapshotOnlyByTick ==
  /\ ctl.debugState = hist.published
  /\ trace.op \in {"get", "write"} =>
       /\ ctl = trace.before
       /\ getDebugState(ctl) = hist.published

\* after a tick and a later call, a caller has written into the vector of a snapshot it
\* was handed: its copy now differs from the controller's snapshot, which is unchanged
C14_Witness ==
  /\ hist.ticks > 0
  /\ hist.calls > 0
  /\ trace.op = "write"
  /\ trace.ref.getter = "getDebugState"
  /\ trace.ref.value.wishDir # ctl.debugState.wishDir
  /\ ctl.debugState = hist.published
  /\ hist.published # NewController.debugState


(***************************************************************************)
(* Specification SpecSurf: one controller on a map with a floor, the surf  *)
(* ramp, a wall and a walkable slope.  Between ticks the caller may place  *)
(* the controller and set its velocity, which is how a controller that     *)
(* still remembers a surf contact comes to stand over other ground or     *)
(* over nothing.  hist.last records the last tick as in Spec.              *)
(***************************************************************************)

MaxSurfTicks == 2
MaxSurfMoves == 2

SurfSpawns == {RampSpawn, WallSpawn}
SurfInputs == {NoInput, [NoInput EXCEPT !.forwardMove = ONE], [NoInput EXCEPT !.jumpPressed = TRUE]}
SurfPositions == {FloorSpawn, SlopeSpawn, SunkSpawn, Vec(3 * ONE, 2 * ONE, 0), Vec(3 * ONE, 195, 0)}
SurfVelocities == {Vec(12 * ONE, 0, 0), Vec(0, -16 * ONE, 0), Vec(130, 0, 0)}

InitSurf ==
  /\ world = EmptyWorld
  /\ ctl = NewController
  /\ hist = [ticks |-> 0, moves |-> 0, loaded |-> FALSE, last |-> Idle]
  /\ mathCall = Idle /\ trace = Idle /\ twin = Idle

SurfLoad ==
  \E spawn \in SurfSpawns :
    /\ ~hist.loaded
    /\ world' = setCollisionGeometry(world, SurfGeometry)
    /\ ctl' = reset(ctl, spawn, 0)
    /\ hist' = [hist EXCEPT !.loaded = TRUE]
    /\ UNCHANGED <<mathCall, trace, twin>>

SurfTicked(input, r) ==
  /\ ctl' = r.out
  /\ hist' = [hist EXCEPT !.ticks = @ + 1,
                          !.last = [input |-> input, before |-> ctl, info |-> [r EXCEPT !.out = Null]]]

SurfTick ==
  \E input \in SurfInputs :
    /\ hist.loaded /\ hist.ticks < MaxSurfTicks
    /\ SurfTicked(input, tick(ctl, FIXED_TICK_DT, input, world))
    /\ UNCHANGED <<mathCall, world, trace, twin>>

SurfMoved(out) ==
  /\ hist.loaded /\ hist.moves < MaxSurfMoves /\ hist.ticks < MaxSurfTicks
  /\ out # ctl
  /\ ctl' = out
  /\ hist' = [hist EXCEPT !.moves = @ + 1]
  /\ UNCHANGED <<mathCall, world, trace, twin>>

SurfSetFeetPosition == \E position \in SurfPositions : SurfMoved(setFeetPosition(ctl, position))

SurfSetVelocity == \E velocity \in SurfVelocities : SurfMoved(setVelocity(ctl, velocity))

NextSurf == SurfLoad \/ SurfTick \/ SurfSetFeetPosition \/ SurfSetVelocity

SpecSurf == InitSurf /\ [][NextSurf]_vars

\* the last tick of SpecSurf, once there was one
SurfLast == hist.last
SurfHasTicked == hist.ticks > 0


\* C16: gravity is applied exactly once per tick (vertical velocity decreased by
\* sv_gravity*dt) unless the actor is grounded and did not just jump: it is skipped if and
\* only if the mode after the jump step is ground
C16_GravityOnce ==
  SurfHasTicked =>
    /\ SurfLast.info.modeAfterJump = "ground" =>
         /\ ~SurfLast.info.jumped
         /\ SurfLast.info.preSlideVelocity = SurfLast.info.updateVelocity
    /\ SurfLast.info.modeAfterJump # "ground" =>
         SurfLast.info.preSlideVelocity =
           [SurfLast.info.updateVelocity EXCEPT
              !.y = @ - MulT(SurfLast.before.cvars.sv_gravity, FIXED_TICK_DT)]

\* a tick that jumped off the ground: it started grounded and gravity was still taken
\* from the jump impulse
C16_Witness ==
  /\ SurfHasTicked
  /\ SurfLast.info.preMode = "ground"
  /\ SurfLast.info.jumped
  /\ SurfLast.info.preSlideVelocity.y =
       SurfLast.before.cvars.sv_jump_impulse - MulT(SurfLast.before.cvars.sv_gravity, FIXED_TICK_DT)
  /\ SurfLast.info.preSlideVelocity.y < SurfLast.info.updateVelocity.y

\* C17: on every tick whose velocity update runs in ground mode, for every move input
\* including none, the velocity after the update has horizontal speed at most sv_maxspeed
\* and a vertical component >= 0
C17_AsStated ==
  SurfHasTicked /\ SurfLast.info.modeAfterJump = "ground" =>
    /\ horizontalLength(SurfLast.info.updateVelocity) <= SurfLast.before.cvars.sv_maxspeed
    /\ SurfLast.info.updateVelocity.y >= 0

\* C18: at the start of a tick, if the ground probe returns no hit and the surf grace
\* counter is greater than 0, the pre-move mode is forced to surf and the active surf normal
\* is the remembered surf-contact normal; if the probe returns no hit and the grace counter
\* is 0, the pre-move mode is air
C18_GraceOverride ==
  SurfHasTicked /\ SurfLast.info.groundProbe0 = Null =>
    /\ SurfLast.before.surfContactGraceTicks > 0 =>
         /\ SurfLast.info.preMode = "surf"
         /\ SurfLast.info.activeSurfNormal = SurfLast.before.surfContactNormal
    /\ SurfLast.before.surfContactGraceTicks = 0 => SurfLast.info.preMode = "air"

\* a tick over nothing that still remembered the ramp: it moved as surf along the ramp
\* normal, although the probe alone says air
C18_Witness ==
  /\ SurfHasTicked
  /\ SurfLast.info.groundProbe0 = Null
  /\ SurfLast.before.surfContactGraceTicks > 0
  /\ SurfLast.info.baseMode = "air"
  /\ SurfLast.info.preMode = "surf"
  /\ SurfLast.info.activeSurfNormal = RAMP_NORMAL

\* the conditions of the ramp-launch preservation as the claim lists them
LaunchConditions ==
  /\ SurfHasTicked
  /\ SurfLast.info.baseMode = "ground"
  /\ SurfLast.before.surfContactGraceTicks > 0
  /\ horizontalLength(SurfLast.before.velocity) >
       Max(SURF_EDGE_LAUNCH_MIN_SPEED, Mul(SurfLast.before.cvars.sv_maxspeed, 922))
  /\ SurfLast.before.velocity.y <= 922

\* the tick moved as air: no ground friction, gravity applied
MovedAsAir ==
  /\ SurfLast.info.preMode = "air"
  /\ ~SurfLast.info.frictionApplied
  /\ SurfLast.info.preSlideVelocity.y =
       SurfLast.info.updateVelocity.y - MulT(SurfLast.before.cvars.sv_gravity, FIXED_TICK_DT)

\* C19 as stated: whenever the probe classifies the actor as ground while the grace counter
\* is greater than 0, horizontal speed exceeds max(5, 0.9*sv_maxspeed) and vertical velocity
\* is <= 0.9, the pre-move mode for that tick is forced to air, so the tick applies no
\* ground friction and does apply gravity
C19_AsStated == LaunchConditions => MovedAsAir

\* C19, amended: the same, for a probe whose slope is below the 1 degree from which the
\* surf edge override of lines 103-112 takes the tick first
C19_LaunchPreserved ==
  LaunchConditions /\ SurfLast.info.groundProbe0.slopeAngleDeg < SURF_EDGE_GROUND_OVERRIDE_MIN_ANGLE_DEG
    => MovedAsAir

\* a fast controller that remembers the ramp stands on the flat floor: the tick moves it
\* as air, and it keeps its horizontal velocity
C19_Witness ==
  /\ LaunchConditions
  /\ SurfLast.info.groundProbe0.slopeAngleDeg = 0
  /\ MovedAsAir
  /\ SurfLast.info.updateVelocity = SurfLast.before.velocity

C22_GraceCounter ==
  /\ ctl.surfContactGraceTicks \in 0..SURF_CONTACT_GRACE_TICKS
  /\ SurfHasTicked /\ SurfLast.info.surfNormal # Null =>
       /\ ctl.surfContactGraceTicks = SURF_CONTACT_GRACE_TICKS
       /\ ctl.surfContactNormal = SurfLast.info.surfNormal

\* a tick that started with the counter at 0 and found the ramp: the counter is 20 and the
\* memory is the ramp normal
C22_Witness ==
  /\ SurfHasTicked
  /\ SurfLast.before.surfContactGraceTicks = 0
  /\ SurfLast.before.surfContactNormal = UP
  /\ SurfLast.info.surfNormal = RAMP_NORMAL
  /\ ctl.surfContactGraceTicks = SURF_CONTACT_GRACE_TICKS
  /\ ctl.surfContactNormal = RAMP_NORMAL

\* the conditions of the ground snap as the claim lists them
SnapConditions ==
  /\ ~SurfLast.info.jumped
  /\ ~SurfLast.info.preserveRampLaunch
  /\ isWalkable(SurfLast.before, SurfLast.info.groundProbe)
  /\ SurfLast.info.groundProbe.distance <= GROUND_SNAP_DIST

\* C24: at the end of a tick, if the actor did not jump, is not preserving a ramp launch,
\* and the post-move probe is walkable at a distance of at most 0.08, then the feet position
\* equals the probe's contact position and vertical velocity is >= 0; if any of these
\* conditions fails the position is the one the slide left
C24_GroundSnap ==
  SurfHasTicked =>
    /\ SnapConditions =>
         /\ SurfLast.info.outPosition = SurfLast.info.groundProbe.position
         /\ SurfLast.info.outVelocity.y >= 0
    /\ ~SnapConditions =>
         /\ SurfLast.info.outPosition = SurfLast.info.slidePosition
         /\ SurfLast.info.outVelocity = SurfLast.info.contactVelocity

\* a controller that fell onto the floor: the slide left it just above the floor with a
\* downward velocity, and the tick ended on the probe's contact point with no fall left
C24_Witness ==
  /\ SurfHasTicked
  /\ SnapConditions
  /\ SurfLast.info.slidePosition # SurfLast.info.groundProbe.position
  /\ SurfLast.info.contactVelocity.y < 0
  /\ SurfLast.info.outPosition = SurfLast.info.groundProbe.position
  /\ SurfLast.info.outVelocity.y = 0

MaxFrames == 3

\* line 1123: Math.min(0.1, ...)
FRAME_CAP == RDiv(T_ONE, 10)

\* the map of the play session: a floor, a spawn above it and a goal pad around the spawn
LoopMap ==
  [geometry |-> FloorGeometry, spawnPosition |-> Vec(3 * ONE, 256, 0), spawnYawDeg |-> 0,
   goalPad |-> [center |-> Vec(3 * ONE, 0, 0), y |-> 0, tolerance |-> 256, radius |-> 2 * ONE],
   voidResetY |-> -12 * ONE]

LoopElapsed == {400, 2500, 5 * T_ONE}
LoopInputs == {NoInput, [NoInput EXCEPT !.forwardMove = ONE]}

frameDtCappedAtDouble(time, lastFrameTime) == Min(2 * FRAME_CAP, time - lastFrameTime)

\* line 1123
frameDt(time, lastFrameTime) == Min(FRAME_CAP, time - lastFrameTime)

\* lines 1718-1756, for a map with a goal pad
tryCompleteRun(f, c) ==
  IF ~f.playing \/ f.runComplete \/ ~f.loadedMap THEN f
  ELSE IF ~getDebugState(c).grounded THEN f
  ELSE IF Abs(getFeetPosition(c).y - LoopMap.goalPad.y) > LoopMap.goalPad.tolerance THEN f
  ELSE IF Hypot(getFeetPosition(c).x - LoopMap.goalPad.center.x,
                getFeetPosition(c).z - LoopMap.goalPad.center.z) > LoopMap.goalPad.radius THEN f
  ELSE [f EXCEPT !.runComplete = TRUE, !.playing = FALSE]

\* lines 2004-2016
resetToSpawn(f) ==
  IF ~f.loadedMap THEN f
  ELSE [f EXCEPT !.ctl = reset(@, LoopMap.spawnPosition, LoopMap.spawnYawDeg), !.runComplete = FALSE]

\* lines 1188-1197: the reset of a controller that fell out of the world
voidReset(f) ==
  IF f.loadedMap /\ getFeetPosition(f.ctl).y < LoopMap.voidResetY THEN resetToSpawn(f) ELSE f

\* lines 1183-1187: f after the tick that left the controller as out
ticked(f, out, dt) ==
  voidReset(tryCompleteRun([f EXCEPT !.ctl = out, !.ticks = @ + 1, !.dts = @ \cup {dt},
                                     !.tickedNotPlaying = @ \/ ~f.playing],
                           out))

\* lines 1155-1200: one iteration of the while loop
step(f, w, input) ==
  IF ~f.playing THEN [f EXCEPT !.accumulator = @ - FIXED_TICK_DT, !.iterations = @ + 1]
  ELSE IF f.resetQueued /\ f.loadedMap
  THEN resetToSpawn([f EXCEPT !.accumulator = @ - FIXED_TICK_DT, !.iterations = @ + 1,
                              !.resetQueued = FALSE])
  ELSE ticked([f EXCEPT !.accumulator = @ - FIXED_TICK_DT, !.iterations = @ + 1],
              tick(f.ctl, FIXED_TICK_DT, input, w).out, FIXED_TICK_DT)

\* the while loop of line 1154
RECURSIVE steps(_, _, _)
steps(f, w, input) ==
  IF f.accumulator >= FIXED_TICK_DT THEN steps(step(f, w, input), w, input) ELSE f

\* lines 1118-1201: the frame at time, from the application state app and controller c
loop(app, c, w, time, look, input, resetPressed) ==
  steps([accumulator |-> app.accumulator + frameDt(time, app.lastFrameTime),
         frameDt |-> frameDt(time, app.lastFrameTime),
         playing |-> app.playing, runComplete |-> app.runComplete, loadedMap |-> app.loadedMap,
         ctl |-> applyLookDelta(c, look.deltaX, look.deltaY, ONE),
         resetQueued |-> resetPressed,
         iterations |-> 0, ticks |-> 0, dts |-> {}, tickedNotPlaying |-> FALSE],
        w, input)

InitLoop ==
  /\ world = EmptyWorld
  /\ ctl = NewController
  /\ hist = [running |-> FALSE, playing |-> FALSE, loadedMap |-> FALSE, runComplete |-> FALSE,
             accumulator |-> 0, lastFrameTime |-> 0, now |-> 0, frames |-> 0]
  /\ trace = [op |-> "new"]
  /\ mathCall = Idle /\ twin = Idle

\* lines 1103-1105; the clock stood at some time when the application started
LoopStart ==
  \E now \in {0, 7 * T_ONE} :
    /\ ~hist.running
    /\ hist' = [hist EXCEPT !.running = TRUE, !.lastFrameTime = now, !.now = now]
    /\ trace' = [op |-> "start"]
    /\ UNCHANGED <<mathCall, world, ctl, twin>>

\* the play session starts: the map is loaded, the player spawns, the pointer is locked
LoopPlay ==
  /\ hist.running /\ ~hist.loadedMap
  /\ world' = setCollisionGeometry(world, LoopMap.geometry)
  /\ ctl' = reset(ctl, LoopMap.spawnPosition, LoopMap.spawnYawDeg)
  /\ hist' = [hist EXCEPT !.loadedMap = TRUE, !.playing = TRUE, !.runComplete = FALSE]
  /\ trace' = [op |-> "play"]
  /\ UNCHANGED <<mathCall, twin>>

\* lines 2228-2246
LoopPointerLockChange ==
  \E locked \in BOOLEAN :
    /\ hist.running
    /\ hist' = [hist EXCEPT !.playing = locked /\ hist.loadedMap /\ ~hist.runComplete]
    /\ hist'.playing # hist.playing
    /\ trace' = [op |-> "pointerLockChange"]
    /\ UNCHANGED <<mathCall, world, ctl, twin>>

LoopFramed(f, time) ==
  /\ ctl' = f.ctl
  /\ hist' = [hist EXCEPT !.accumulator = f.accumulator, !.lastFrameTime = time, !.now = time,
                          !.playing = f.playing, !.runComplete = f.runComplete,
                          !.frames = @ + 1]
  /\ trace' = [op |-> "frame", frameDt |-> f.frameDt, iterations |-> f.iterations,
               ticks |-> f.ticks, dts |-> f.dts, tickedNotPlaying |-> f.tickedNotPlaying,
               wasPlaying |-> hist.playing, before |-> hist.accumulator]

\* the browser calls loop with the time of the frame
LoopFrame ==
  \E elapsed \in LoopElapsed, input \in LoopInputs, resetPressed \in BOOLEAN :
    /\ hist.running /\ hist.frames < MaxFrames
    /\ LoopFramed(loop(hist, ctl, world, hist.now + elapsed, [deltaX |-> 0, deltaY |-> 0],
                       input, resetPressed),
                  hist.now + elapsed)
    /\ UNCHANGED <<mathCall, world, twin>>

NextLoop == LoopStart \/ LoopPlay \/ LoopPointerLockChange \/ LoopFrame

SpecLoop == InitLoop /\ [][NextLoop]_vars

\* the most iterations a frame can run: the accumulator is below one step before the
\* frame and gains at most the cap
MAX_STEPS_PER_FRAME == (FRAME_CAP + FIXED_TICK_DT - 1) \div FIXED_TICK_DT

\* C15: the game loop runs the simulation at a fixed 128 Hz step: every call to tick made
\* by the loop uses dt = 1/128 s, tick is called only while the game is in the playing
\* state, and after each rendered frame the time accumulator is in [0, 1/128), with the
\* number of ticks per frame bounded because the frame delta is capped at 0.1 s
C15_FixedStep ==
  /\ hist.accumulator >= 0 /\ hist.accumulator < FIXED_TICK_DT
  /\ trace.op = "frame" =>
       /\ trace.dts \subseteq {FIXED_TICK_DT}
       /\ FIXED_TICK_DT * 128 = T_ONE
       /\ ~trace.tickedNotPlaying
       /\ ~trace.wasPlaying => trace.ticks = 0
       /\ trace.frameDt <= FRAME_CAP
       /\ trace.ticks <= trace.iterations
       /\ trace.iterations <= MAX_STEPS_PER_FRAME
       /\ trace.iterations * FIXED_TICK_DT + hist.accumulator = trace.before + trace.frameDt

\* a frame half a second after the last one, while playing: its delta was capped and it
\* ran the most steps a frame can run; the run was completed part of the way through, and
\* the steps after that did not tick
C15_Witness ==
  /\ trace.op = "frame"
  /\ trace.wasPlaying /\ ~hist.playing
  /\ trace.frameDt = FRAME_CAP
  /\ trace.iterations = MAX_STEPS_PER_FRAME
  /\ trace.ticks > 0 /\ trace.ticks < trace.iterations
  /\ trace.dts = {FIXED_TICK_DT}
  /\ hist.accumulator > 0


(***************************************************************************)
(* Specification SpecStrafe: the air-strafe scenario of the behaviour      *)
(* tests.  Two controllers start at (0,12,0) with velocity (6,0,0) in a    *)
(* world that has no geometry; ctl turns its view by the same look delta   *)
(* before every tick and holds the side key, twin gets no input.           *)
(***************************************************************************)

StrafeTicks == 160
StrafeStart == Vec(0, 12 * ONE, 0)
StrafeVelocity == Vec(6 * ONE, 0, 0)
StrafeInput == [NoInput EXCEPT !.sideMove = ONE]
\* the gain the test asks for, 0.25
StrafeGain == 256

InitStrafe ==
  /\ world = EmptyWorld
  /\ ctl = NewController
  /\ twin = NewController
  /\ hist = [ticks |-> 0, placed |-> FALSE]
  /\ mathCall = Idle /\ trace = Idle

\* lines 200-203 of the test
StrafePlace ==
  /\ ~hist.placed
  /\ ctl' = setVelocity(reset(ctl, StrafeStart, 0), StrafeVelocity)
  /\ twin' = setVelocity(reset(twin, StrafeStart, 0), StrafeVelocity)
  /\ hist' = [hist EXCEPT !.placed = TRUE]
  /\ UNCHANGED <<mathCall, world, trace>>

\* one round of the loop of lines 205-229 of the test
StrafeTick ==
  /\ hist.placed /\ hist.ticks < StrafeTicks
  /\ twin' = tick(twin, FIXED_TICK_DT, NoInput, world).out
  /\ ctl' = tick(applyLookDelta(ctl, -3, 0, ONE), FIXED_TICK_DT, StrafeInput, world).out
  /\ hist' = [hist EXCEPT !.ticks = @ + 1]
  /\ UNCHANGED <<mathCall, world, trace>>

NextStrafe == StrafePlace \/ StrafeTick

SpecStrafe == InitStrafe /\ [][NextStrafe]_vars

\* C11: air-strafing gains speed: starting at (0,12,0) with velocity (6,0,0) in a world
\* with no ground, after 160 ticks of side input with a matching per-tick yaw turn the
\* horizontal speed exceeds that of an identical run with no input by more than 0.25 m/s
C11_StrafeGain ==
  hist.ticks = StrafeTicks =>
    horizontalLength(getVelocity(ctl)) > horizontalLength(getVelocity(twin)) + StrafeGain

\* the end of the scenario: both controllers are still falling through the air, the one
\* without input at its starting horizontal speed, the strafing one faster and turned
C11_Witness ==
  /\ hist.ticks = StrafeTicks
  /\ horizontalLength(getVelocity(twin)) = 6 * ONE
  /\ horizontalLength(getVelocity(ctl)) > 6 * ONE + StrafeGain
  /\ ctl.yawRad = 3 * StrafeTicks * Mul(LOOK_SCALE, ONE)
  /\ ctl.debugState.movementMode = "air" /\ twin.debugState.movementMode = "air"
  /\ getFeetPosition(twin).y < StrafeStart.y

(***************************************************************************)
(* Specification SpecCorner: one controller on a floor with two walls that *)
(* meet in an acute corner.  The caller places the controller and sets its *)
(* velocity between ticks, so that a tick can run into the floor and both  *)
(* walls at once.  hist.last records the last tick as in SpecSurf.         *)
(***************************************************************************)

MaxCornerTicks == 2
MaxCornerMoves == 2

CornerInputs == {NoInput, [NoInput EXCEPT !.forwardMove = ONE]}
CornerPositions == {CornerSpawn, Vec(4740, 250, 620), Vec(4400, 0, 900)}
CornerVelocities ==
  {Vec(8 * ONE, -16 * ONE, -16 * ONE), Vec(8 * ONE, -30 * ONE, -16 * ONE), Vec(4 * ONE, 0, 0)}

InitCorner ==
  /\ world = setCollisionGeometry(EmptyWorld, CornerGeometry)
  /\ ctl = reset(NewController, FloorSpawn, 0)
  /\ hist = [ticks |-> 0, moves |-> 0, last |-> Idle]
  /\ mathCall = Idle /\ trace = Idle /\ twin = Idle

CornerTick ==
  \E input \in CornerInputs :
    /\ hist.ticks < MaxCornerTicks
    /\ ctl' = tick(ctl, FIXED_TICK_DT, input, world).out
    /\ hist' = [hist EXCEPT !.ticks = @ + 1,
                            !.last = [input |-> input, before |-> ctl,
                                      info |-> [tick(ctl, FIXED_TICK_DT, input, world) EXCEPT !.out = Null]]]
    /\ UNCHANGED <<mathCall, world, trace, twin>>

CornerMoved(out) ==
  /\ hist.moves < MaxCornerMoves /\ hist.ticks < MaxCornerTicks
  /\ out # ctl
  /\ ctl' = out
  /\ hist' = [hist EXCEPT !.moves = @ + 1]
  /\ UNCHANGED <<mathCall, world, trace, twin>>

CornerSetFeetPosition == \E position \in CornerPositions : CornerMoved(setFeetPosition(ctl, position))

CornerSetVelocity == \E velocity \in CornerVelocities : CornerMoved(setVelocity(ctl, velocity))

NextCorner == CornerTick \/ CornerSetFeetPosition \/ CornerSetVelocity

SpecCorner == InitCorner /\ [][NextCorner]_vars

\* the last tick of SpecCorner, once there was one
CornerLast == hist.last
CornerHasTicked == hist.ticks > 0

\* C21 as stated: when 3 or more distinct blocking planes have been accumulated in one
\* tick's bump loop and the velocity cannot be resolved against them, the loop performs no
\* further sweep
C21_AsStated ==
  CornerHasTicked =>
    \A i \in 1..Len(CornerLast.info.blocked) :
      CornerLast.info.blocked[i] => CornerLast.info.traces = i

\* C21, amended: the bump loop never sweeps more than MAX_BUMPS times in a tick and never
\* holds more than MAX_PLANES planes; a hit that leaves 3 or more planes and a velocity
\* that still enters one of them is followed by another sweep while bumps and time remain,
\* and the tick ends with part of its time not integrated
C21_BumpLimitStops ==
  CornerHasTicked =>
    /\ CornerLast.info.traces <= MAX_BUMPS
    /\ CornerLast.info.planes <= MAX_PLANES
    /\ \A i \in 1..Len(CornerLast.info.blocked) :
         CornerLast.info.blocked[i] =>
           /\ CornerLast.info.remainingTime > 0
           /\ CornerLast.info.remainingTime < FIXED_TICK_DT
           /\ (i < MAX_BUMPS /\ CornerLast.info.afters[i] > 0 => CornerLast.info.traces > i)

\* a tick into the corner: its third hit left three planes and a velocity into one of
\* them, a fourth sweep followed and hit again, and the loop ended on the bump limit with
\* time left over
C21_Witness ==
  /\ CornerHasTicked
  /\ CornerLast.info.planes = 3
  /\ Len(CornerLast.info.blocked) = MAX_BUMPS
  /\ CornerLast.info.blocked[3] /\ CornerLast.info.blocked[4]
  /\ CornerLast.info.traces = MAX_BUMPS
  /\ CornerLast.info.remainingTime > 0

\* C25 as stated: if the surf grace counter is 0 at the start of a tick and no
\* surf-qualifying normal is found during that tick (from the probe or from any collision),
\* it is still 0 at the end of the tick, and the actor is not reported as surfing
C25_AsStated ==
  /\ CornerHasTicked
  /\ CornerLast.before.surfContactGraceTicks = 0
  /\ getSurfNormalFromProbe(CornerLast.before, CornerLast.info.groundProbe0) = Null
  /\ CornerLast.info.surfNormal = Null
  => /\ ctl.surfContactGraceTicks = 0
     /\ ctl.debugState.movementMode # "surf"


(***************************************************************************)
(* Specification SpecHop: one controller on the flat floor whose player    *)
(* holds jump on every tick.  hist.last records the last tick as in        *)
(* SpecSurf and hist.jumps the ticks that jumped, in order.                *)
(***************************************************************************)

MaxHopTicks == 6

\* jump is held, never pressed anew; the player may also move
HopInputs ==
  {[NoInput EXCEPT !.jumpHeld = TRUE],
   [NoInput EXCEPT !.jumpHeld = TRUE, !.forwardMove = ONE],
   [NoInput EXCEPT !.jumpHeld = TRUE, !.sideMove = ONE]}

InitHop ==
  /\ world = setCollisionGeometry(EmptyWorld, FloorGeometry)
  /\ ctl = reset(NewController, FloorSpawn, 0)
  /\ hist = [ticks |-> 0, jumps |-> <<>>, last |-> Idle]
  /\ mathCall = Idle /\ trace = Idle /\ twin = Idle

HopSetCvar ==
  /\ hist.ticks = 0
  /\ ~ctl.cvars.sv_autobhop_enabled
  /\ ctl' = setCvar(ctl, "sv_autobhop_enabled", TRUE)
  /\ UNCHANGED <<mathCall, world, trace, twin, hist>>

HopTicked(input, r) ==
  /\ ctl' = r.out
  /\ hist' = [hist EXCEPT !.ticks = @ + 1,
                          !.jumps = Append(@, r.jumped),
                          !.last = [input |-> input, before |-> ctl, info |-> [r EXCEPT !.out = Null]]]

HopTick ==
  \E input \in HopInputs :
    /\ hist.ticks < MaxHopTicks
    /\ HopTicked(input, tick(ctl, FIXED_TICK_DT, input, world))
    /\ UNCHANGED <<mathCall, world, trace, twin>>

NextHop == HopSetCvar \/ HopTick

SpecHop == InitHop /\ [][NextHop]_vars

\* C26 as stated: with auto-bhop enabled and jump held continuously, on the tick
\* immediately after a tick that jumped, while the actor is still rising from that jump,
\* vertical velocity is not set to sv_jump_impulse again
C26_AsStated ==
  /\ hist.ticks >= 2
  /\ ctl.cvars.sv_autobhop_enabled
  /\ hist.jumps[hist.ticks - 1]
  /\ hist.last.before.velocity.y > 0
  => /\ ~hist.last.info.jumped
     /\ hist.last.info.velocityAfterJump.y = hist.last.before.velocity.y

(***************************************************************************)
(* Specification SpecReset: one controller on the map of SpecSurf that is  *)
(* ticked, looked around, given a cvar and reset to a spawn.  hist.from is *)
(* the controller the last reset was called on, hist.to its arguments,     *)
(* hist.ops the calls made so far and hist.last the last tick.             *)
(***************************************************************************)

MaxResetTicks == 2
MaxResetCalls == 3

ResetInputs == {NoInput, [NoInput EXCEPT !.forwardMove = ONE]}
ResetPositions == {FloorSpawn, AirSpawn, RampSpawn}
ResetYaws == {0, -90 * ONE}
ResetLook == [deltaX |-> 357, deltaY |-> 500]

InitReset ==
  /\ world = setCollisionGeometry(EmptyWorld, SurfGeometry)
  /\ ctl = reset(NewController, RampSpawn, 0)
  /\ hist = [ticks |-> 0, ops |-> <<"reset">>, from |-> NewController,
             to |-> [position |-> RampSpawn, yawDeg |-> 0], last |-> Idle]
  /\ mathCall = Idle /\ trace = Idle /\ twin = Idle

ResetTicked(input, r) ==
  /\ ctl' = r.out
  /\ hist' = [hist EXCEPT !.ticks = @ + 1,
                          !.ops = Append(@, "tick"),
                          !.last = [input |-> input, before |-> ctl, info |-> [r EXCEPT !.out = Null]]]

ResetTick ==
  \E input \in ResetInputs :
    /\ hist.ticks < MaxResetTicks
    /\ ResetTicked(input, tick(ctl, FIXED_TICK_DT, input, world))
    /\ UNCHANGED <<mathCall, world, trace, twin>>

ResetCalled(op, out) ==
  /\ Len(hist.ops) - hist.ticks <= MaxResetCalls
  /\ hist.ticks < MaxResetTicks
  /\ out # ctl
  /\ ctl' = out
  /\ hist' = [hist EXCEPT !.ops = Append(@, op)]
  /\ UNCHANGED <<mathCall, world, trace, twin>>

ResetSetCvar == ResetCalled("setCvar", setCvar(ctl, "sv_maxspeed", 6 * ONE))

ResetApplyLookDelta == ResetCalled("applyLookDelta", applyLookDelta(ctl, ResetLook.deltaX, ResetLook.deltaY, ONE))

ResetReset ==
  \E position \in ResetPositions, yawDeg \in ResetYaws :
    /\ Len(hist.ops) - hist.ticks <= MaxResetCalls
    /\ hist.ticks > 0 /\ hist.ticks < MaxResetTicks
    /\ ctl' = reset(ctl, position, yawDeg)
    /\ hist' = [hist EXCEPT !.ops = Append(@, "reset"), !.from = ctl,
                            !.to = [position |-> position, yawDeg |-> yawDeg]]
    /\ UNCHANGED <<mathCall, world, trace, twin>>

NextReset == ResetTick \/ ResetSetCvar \/ ResetApplyLookDelta \/ ResetReset

SpecReset == InitReset /\ [][NextReset]_vars

\* the last call made, and whether the last call was a tick made directly after a reset
ResetLastOp == hist.ops[Len(hist.ops)]
ResetFirstTick == Len(hist.ops) >= 2 /\ ResetLastOp = "tick" /\ hist.ops[Len(hist.ops) - 1] = "reset"

\* a controller that never moved, with the cvars and the snapshot of the one that was reset
ResetFresh == [NewController EXCEPT !.cvars = hist.from.cvars, !.debugState = hist.from.debugState]

====
